---- MODULE Spec2Model ----
(***************************************************************************)
(* Model of the crawler engine of SEO_Spider (src/spider.py) together with *)
(* the two threads of src/main.py that drive it: the scan thread           *)
(* (run_scan_thread) and the UI thread (pause_scan, resume_scan,           *)
(* cancel_scan).                                                           *)
(*                                                                         *)
(* URLs are sequences of one-character strings.  The characters "h" and    *)
(* "x" stand for the prefixes "https://example.com" and                    *)
(* "https://other.org" (scheme and host, which the crawler never splits),  *)
(* the remaining characters are path characters; a final "g" or "s" stands *)
(* for the final path segment "logo.png" or "main.js".  An href that is not *)
(* an absolute http(s) URL begins with "/" (a path relative to the page's  *)
(* host), with "j", "m", "t" or "#" (standing for the prefixes             *)
(* "javascript:", "mailto:", "tel:" and "#"), with "M" ("MAILTO:") or with *)
(* "f" ("ftp://files.org").  HTTP statuses are integers; the sentinel      *)
(* "Request Failed" is the integer RequestFailed.                          *)
(***************************************************************************)
EXTENDS Integers, Sequences, FiniteSets, Bags, TLC

VARIABLES
    url_queue,       \* Spider.url_queue: PriorityQueue, kept as a sorted sequence of tasks
    visited,         \* Spider.visited
    visited_lock,    \* Spider.visited_lock: its holder, or NoThread
    paused,          \* Spider.paused (threading.Event)
    cancelled,       \* Spider.cancelled (threading.Event)
    threads,         \* Spider.threads: the workers of the current pool
    thread_lock,     \* Spider.thread_lock: its holder, or NoThread
    results_queue,   \* Spider.results_queue (FIFO)
    batch,           \* local list 'batch' of _process_batches
    db,              \* rows of table 'results' (url is the primary key)
    dbTable,         \* TRUE while the database file holds table 'results'
    wpc,             \* position of each worker thread in _worker/_crawl_url
    wtask,           \* the task (depth, url, referrer) a worker holds
    bpc,             \* position of the batch processor thread
    ui,              \* position of the UI thread (main.py button callbacks)
    scan,            \* position of the scan thread (main.py run_scan_thread)
    cancelRet,       \* list returned by the last finished Spider.cancel()
    getRet,          \* list returned by the last finished Spider.get_results()
    emitted,         \* history: bag of the results put on results_queue
    crawlCalls,      \* history: bag of the URLs passed to _crawl_url
    base_url,        \* Spider.base_url, the seed (main.py passes it to crawl() too)
    writeFailed,     \* history: some batch write raised and the batch was dropped
    linksLeft,       \* the web: number of links the site can still serve
    now,             \* rate limiter: wall clock (time.time())
    domain_last_request, \* Spider.domain_last_request
    rpc,             \* rate limiter: position of each worker in _respect_rate_limit
    rcur,            \* rate limiter: local 'current_time' of each worker
    rdom,            \* rate limiter: argument 'domain' of each worker's call
    rwake,           \* rate limiter: time at which a sleeping worker wakes
    requests,        \* history: <<domain, start time>> of every request issued
    linkPages,       \* history: the fetches whose response carried unvisited links
    arrivals,        \* history: the tasks of url_queue in the order they were put
    whoisCalls,      \* history: bag of the domains passed to WhoisChecker.check_domain
    removeTries,     \* history: the most os.remove attempts one _cleanup call has made
    locksLeft,       \* the system: number of times it still refuses to remove the file
    failed,          \* history: the URLs whose every fetch attempt raised a transport error
    retry,           \* retry loop of _crawl_url: each worker's locals and what it has done
    dropped,         \* history: the results of the batches whose write raised
    robots_txt,      \* the web: the response to the request for robots.txt
    robots_rules,    \* Spider.robots_rules: the disallowed path prefixes
    crawl_resources, \* Spider.crawl_resources: the enabled resource categories
    site,            \* the web: the pages the site can serve
    expansions,      \* history: the pages whose links were followed, and the tasks put
    graph,           \* the web: the page of each URL when the link graph is fixed, or NoGraph
    norm,            \* a URL given to _normalize_url, and what one and two calls return
    timeout          \* Spider.timeout: the global timeout in seconds, or NoTimeout

vars == <<url_queue, visited, visited_lock, paused, cancelled, threads, thread_lock,
          results_queue, batch, db, dbTable, wpc, wtask, bpc, ui, scan,
          cancelRet, getRet, emitted, crawlCalls, base_url, writeFailed, linksLeft,
          now, domain_last_request, rpc, rcur, rdom, rwake, requests,
          linkPages, arrivals, whoisCalls, removeTries,
          locksLeft, failed, retry, dropped,
          robots_txt, robots_rules, crawl_resources, site, expansions, graph, norm,
          timeout>>

----------------------------------------------------------------------------
(* Bounds and configuration *)

Workers == {"w1", "w2"}

max_threads == Cardinality(Workers)

\* every thread a run can start: the pool of crawl(), and the threads that a
\* resume() called before crawl() starts and crawl() then leaves running
ThreadIds == Workers \cup {"w3", "w4"}

max_depth == 2

batch_size == 2

\* number of links the site serves: in a crawl without the result sink, and
\* in a crawl with it
MaxLinks == 3

SinkLinks == 1

\* number of links the site serves in the runs checked under fair scheduling
FairLinks == 2

\* number of links the site serves to a Spider on which crawl() is never called
UnstartedLinks == 1

\* number of links of the fixed link graph
GraphLinks == 4

\* longest path (with fragment) of the URLs given to _normalize_url alone
MaxPathLen == 3

\* number of links served by the site with links of every kind
FilterLinks == 3

\* number of links the site serves when resume() is called before crawl()
EarlyLinks == 0

\* number of links the site serves in the runs that check that cancel() returns
CancelLinks == 0

\* Spider.delay, in clock ticks, and the last tick of the clock
delay == 2

MaxTime == 3

\* number of times the system refuses to remove the database file, and number
\* of links the site serves, in the runs that check _cleanup
MaxLocked == 3

CleanupLinks == 0

NoThread == "none"

NoTask == <<>>

\* value of cancelRet / getRet while the call has not returned
NoList == {[url |-> <<>>, status |-> -1, referrer |-> <<>>, type |-> "none",
            domain |-> "", depth |-> -1]}

RequestFailed == 0

\* timeout=None (or 0): no global timeout, line 361 tests the truth of self.timeout
NoTimeout == 0

\* the global timeout of the runs that are given one, in seconds
GlobalTimeout == 1

\* number of links the site serves in the runs with a global timeout
TimeoutLinks == 1

----------------------------------------------------------------------------
(* URL classifier *)

Root == <<"r", "o", "o", "t">>

\* code points of the characters used, as Python compares strings
Code(c) ==
    CASE c = "#" -> 35
      [] c = "/" -> 47
      [] c = "A" -> 65
      [] c = "H" -> 72
      [] c = "a" -> 97
      [] c = "b" -> 98
      [] c = "c" -> 99
      [] c = "g" -> 108
      [] c = "h" -> 104
      [] c = "o" -> 111
      [] c = "r" -> 114
      [] c = "s" -> 109
      [] c = "t" -> 116
      [] c = "x" -> 120
      [] OTHER -> 63

LowerChar(c) ==
    CASE c = "A" -> "a"
      [] c = "H" -> "h"
      [] OTHER -> c

RECURSIVE RStripSlash(_)
RStripSlash(s) ==
    IF s # <<>> /\ s[Len(s)] = "/" THEN RStripSlash(SubSeq(s, 1, Len(s) - 1)) ELSE s

RECURSIVE BeforeHash(_)
BeforeHash(s) ==
    IF s = <<>> \/ Head(s) = "#" THEN <<>> ELSE <<Head(s)>> \o BeforeHash(Tail(s))

Lower(s) == [i \in 1..Len(s) |-> LowerChar(s[i])]

_normalize_url(url) == Lower(BeforeHash(RStripSlash(url)))

\* netloc of the URL with 'www.' removed; the host is kept in the case given
get_domain(url) == IF url = <<>> THEN "" ELSE url[1]

\* a classifier for which every URL is internal
NoUrlExternal(base_domain, url) == FALSE

is_external_url(base_domain, url) == get_domain(url) # base_domain

RECURSIVE StrLess(_, _)
StrLess(s, t) ==
    IF t = <<>> THEN FALSE
    ELSE IF s = <<>> THEN TRUE
    ELSE IF Head(s) = Head(t) THEN StrLess(Tail(s), Tail(t))
    ELSE Code(Head(s)) < Code(Head(t))

\* tuple comparison of (depth, url, referrer)
TaskLess(t1, t2) ==
    \/ t1[1] < t2[1]
    \/ t1[1] = t2[1] /\ StrLess(t1[2], t2[2])
    \/ t1[1] = t2[1] /\ t1[2] = t2[2] /\ StrLess(t1[3], t2[3])

\* url_queue.put: the queue, smallest task first
RECURSIVE QueuePut(_, _)
QueuePut(q, t) ==
    IF q = <<>> THEN <<t>>
    ELSE IF TaskLess(t, Head(q)) THEN <<t>> \o q
    ELSE <<Head(q)>> \o QueuePut(Tail(q), t)

----------------------------------------------------------------------------
(* The web: what a fetch can return *)

Hh == <<"h">>
HSlash == <<"h", "/">>
Ha == <<"h", "/", "a">>
HA == <<"h", "/", "A">>
HaFrag == <<"h", "/", "a", "/", "#">>
Xx == <<"x", "/">>

SeedUrls == {Hh, HSlash}

\* an element <a>, <img>, <script> or <link> of a page: its href (or src)
\* attribute and its rel attribute
Tag(href) == [href |-> href, rel |-> {}]

NoFollowTag(href) == [href |-> href, rel |-> {"nofollow"}]

\* the elements of a page with links, in document order: absolute links only
Pages ==
    { <<>>, <<Tag(Ha)>>, <<Tag(HaFrag)>>, <<Tag(HSlash)>>, <<Tag(Xx)>>,
      <<Tag(Ha), Tag(HA)>>, <<Tag(HaFrag), Tag(Ha)>> }

\* hrefs "/a", "/logo.png", "/main.js", "mailto:...", "javascript:...",
\* "tel:...", "#...", "MAILTO:...", "ftp://files.org", and no href at all
RelA == <<"/", "a">>
RelPng == <<"/", "g">>
RelJs == <<"/", "s">>
Mailto == <<"m">>
Javascript == <<"j">>
Tel == <<"t">>
Fragment == <<"#">>
MailtoUpper == <<"M">>
Ftp == <<"f">>
NoHref == <<>>

\* the pages of a site with links of every kind
FilterPages ==
    { <<>>, <<Tag(RelA)>>, <<Tag(Xx)>>, <<Tag(RelPng)>>, <<Tag(RelJs)>>, <<NoFollowTag(Ha)>>,
      <<Tag(Mailto), Tag(Javascript)>>, <<Tag(Tel), Tag(Fragment)>>,
      <<Tag(MailtoUpper), Tag(Ftp)>>, <<Tag(NoHref), Tag(HSlash)>>,
      <<Tag(RelA), Tag(Mailto), Tag(RelPng)>> }

\* line 322: a completed response (status, whether Content-Type holds
\* text/html, the elements of the body) or, after three transport errors, no
\* response; the site serves no more than linksLeft further links
NotFound == 404

Outcomes ==
    {[status |-> 200, html |-> h, links |-> p] :
        h \in BOOLEAN, p \in {q \in site : Len(q) <= linksLeft}}
    \cup {[status |-> NotFound, html |-> TRUE, links |-> p] :
        p \in {q \in site : q # <<>> /\ Len(q) <= linksLeft}}
    \cup {[status |-> RequestFailed, html |-> FALSE, links |-> <<>>]}

\* the responses to the request for robots.txt: a directive line is its field
\* and its value, any other line has the field "other"
Line(field, value) == [field |-> field, value |-> value]

RobotsFiles ==
    { <<Line("user-agent", "*"), Line("disallow", <<"/", "A">>)>>,
      <<Line("user-agent", "seo-spider"), Line("other", <<>>), Line("disallow", <<"/">>)>>,
      <<Line("user-agent", "googlebot"), Line("disallow", <<"/", "a">>)>>,
      <<Line("disallow", <<"/", "a">>), Line("user-agent", "*"), Line("disallow", <<>>)>> }

RobotsResponses ==
    {[status |-> 200, lines |-> f] : f \in RobotsFiles}
    \cup {[status |-> NotFound, lines |-> <<Line("disallow", <<"/">>)>>],
          [status |-> RequestFailed, lines |-> <<>>]}

\* a web that may answer a request for a URL with any page of the site
NoGraph == <<>>

\* a site of four pages: the seed links to /a and /b, /a links to /b, /b
\* links to /c
Hb == <<"h", "/", "b">>
Hc == <<"h", "/", "c">>

LinkGraph ==
    [u \in {Hh, HSlash, Ha, Hb, Hc} |->
        IF u \in {Hh, HSlash} THEN <<Tag(Ha), Tag(Hb)>>
        ELSE IF u = Ha THEN <<Tag(Hb)>>
        ELSE IF u = Hb THEN <<Tag(Hc)>>
        ELSE <<>>]

\* line 322 on a fixed link graph: the request for url is answered by its page
Served(url, out) ==
    \/ graph = NoGraph
    \/ /\ url \in DOMAIN graph
       /\ out = [status |-> 200, html |-> TRUE, links |-> graph[url]]

\* a site without robots.txt
NoRobots == [status |-> RequestFailed, lines |-> <<>>]

\* the resource settings tried
ResourceSettings == {{}, {"images"}}

----------------------------------------------------------------------------
(* Worker threads: Spider._worker and Spider._crawl_url *)

\* Thread.is_alive: started and not ended, be it by return ("exit") or by an
\* exception that left _worker ("dead")
is_alive(w) == wpc[w] \notin {"new", "exit", "dead"}

\* urllib.parse.urljoin(url, href): a path is resolved against the host of
\* url, a URL with a scheme is kept
urljoin(url, href) ==
    IF href # <<>> /\ Head(href) = "/" THEN <<Head(url)>> \o href ELSE href

\* utils.is_valid_url: scheme http or https and a host
is_valid_url(url) == url # <<>> /\ Head(url) \in {"h", "x"}

\* a classifier that knows no resource extension
NoType == "none"

NoResourceType(url) == NoType

\* Spider._get_resource_type: by the extension of the URL without its query
\* and fragment
_get_resource_type(url) ==
    LET u == BeforeHash(url)
    IN IF u = <<>> THEN NoType
       ELSE IF u[Len(u)] = "g" THEN "images"
       ELSE IF u[Len(u)] = "s" THEN "scripts"
       ELSE NoType

\* lines 204-215: the resource test of a normalised link
ResourceEnabled(n) ==
    _get_resource_type(n) = NoType \/ _get_resource_type(n) \in crawl_resources

\* Spider._extract_links: the normalised links of the elements of the page
\* fetched from url that pass the tests of lines 195-215, in document order
RECURSIVE _extract_links(_, _, _)
_extract_links(url, raw, vis) ==
    IF raw = <<>> THEN <<>>
    ELSE LET tag == Head(raw)
             full_url == urljoin(url, tag.href)
             n == _normalize_url(full_url)
             keep == /\ tag.href # <<>>
                     /\ Head(tag.href) \notin {"j", "m", "t", "#"}
                     /\ "nofollow" \notin tag.rel
                     /\ is_valid_url(full_url)
                     /\ n \notin vis
                     /\ ResourceEnabled(n)
         IN (IF keep THEN <<n>> ELSE <<>>) \o _extract_links(url, Tail(raw), vis)

\* s begins with p (str.startswith)
StartsWith(s, p) == Len(p) <= Len(s) /\ SubSeq(s, 1, Len(p)) = p

\* urlparse(url).path
Path(url) == BeforeHash(Tail(url))

\* a crawler that ignores the robots rules
AllowedWhateverRobots(url) == TRUE

\* Spider._is_allowed_by_robots
_is_allowed_by_robots(url) == \A rule \in robots_rules : ~StartsWith(Path(url), rule)

\* lines 133-141: the loop over the lines of robots.txt, lower-cased
RECURSIVE ParseRobots(_, _, _)
ParseRobots(lines, user_agent, rules) ==
    IF lines = <<>> THEN rules
    ELSE LET line == Head(lines)
         IN IF line.field = "user-agent"
               THEN ParseRobots(Tail(lines), line.value, rules)
            ELSE IF line.field = "disallow" /\ user_agent \in {"*", "seo-spider"}
                    /\ line.value # <<>>
               THEN ParseRobots(Tail(lines), user_agent, rules \cup {Lower(line.value)})
            ELSE ParseRobots(Tail(lines), user_agent, rules)

\* Spider._load_robots_txt: the rules after the constructor; a response other
\* than 200 and a transport error leave them empty
_load_robots_txt(resp) ==
    IF resp.status = 200 THEN ParseRobots(resp.lines, "None", {}) ELSE {}

\* a child task that keeps its parent's depth
ChildTaskSameDepth(depth, link, url) == <<depth, link, url>>

\* line 354: the child task of a link found on url
ChildTask(depth, link, url) == <<depth + 1, link, url>>

\* line 353: the test of a link before it is put
Puttable(link, vis) == link \notin vis /\ _is_allowed_by_robots(link)

\* lines 352-354: enqueue every extracted link that is still unvisited and
\* allowed by robots
RECURSIVE EnqueueLinks(_, _, _, _, _)
EnqueueLinks(q, links, vis, depth, url) ==
    IF links = <<>> THEN q
    ELSE EnqueueLinks(IF Puttable(Head(links), vis)
                         THEN QueuePut(q, ChildTask(depth, Head(links), url))
                         ELSE q,
                      Tail(links), vis, depth, url)

\* the tasks lines 352-354 put, in the order of the puts
RECURSIVE PutLinks(_, _, _, _)
PutLinks(links, vis, depth, url) ==
    IF links = <<>> THEN <<>>
    ELSE (IF Puttable(Head(links), vis) THEN <<ChildTask(depth, Head(links), url)>> ELSE <<>>)
         \o PutLinks(Tail(links), vis, depth, url)

\* sequence s without its first element equal to t
RECURSIVE RemoveFirst(_, _)
RemoveFirst(s, t) ==
    IF s = <<>> THEN <<>>
    ELSE IF Head(s) = t THEN Tail(s)
    ELSE <<Head(s)>> \o RemoveFirst(Tail(s), t)

\* lines 334-344
CrawlResult(url, status, referrer, depth) ==
    [url |-> url, status |-> status, referrer |-> referrer,
     type |-> IF is_external_url(get_domain(base_url), url) THEN "external" ELSE "internal",
     domain |-> get_domain(url), depth |-> depth]

\* a crawl without depth limit
DepthUnlimited(depth) == TRUE

\* line 348, last conjunct
BelowMaxDepth(depth) == depth < max_depth

\* line 348: the condition under which links are followed
Expandable(res, out) ==
    /\ res.type = "internal"
    /\ out.status = 200
    /\ out.html
    /\ BelowMaxDepth(res.depth)

\* a worker that does not wait for visited_lock
VisitedLockIgnored == TRUE

VisitedLockFree == visited_lock = NoThread

\* line 361: the global timeout is configured and has elapsed (start_time, the
\* time of construction, is 0)
TimedOut == timeout # NoTimeout /\ now - 0 > timeout

\* a worker whose loop ends when the crawl is paused
WorkerLoopStopsOnPause(w) ==
    /\ wpc[w] = "loop"
    /\ wpc' = [wpc EXCEPT ![w] = IF cancelled \/ paused THEN "exit"
                                 ELSE IF TimedOut THEN "t_cancel" ELSE "get"]
    /\ UNCHANGED <<url_queue, visited, visited_lock, paused, cancelled, threads,
                   thread_lock, results_queue, batch, db, dbTable, wtask, bpc, ui, scan,
                   cancelRet, getRet, emitted, crawlCalls, base_url, writeFailed,
                   linksLeft, now, domain_last_request, rpc, rcur, rdom, rwake, requests,
                   linkPages, arrivals, whoisCalls, removeTries, locksLeft, failed, retry,
                   dropped, robots_txt, robots_rules, crawl_resources, site, expansions,
                   graph, norm, timeout>>

\* lines 369-371: loop test of _worker, then the test of _check_timeout
WorkerLoop(w) ==
    /\ wpc[w] = "loop"
    /\ wpc' = [wpc EXCEPT ![w] = IF cancelled THEN "exit"
                                 ELSE IF TimedOut THEN "t_cancel" ELSE "get"]
    /\ UNCHANGED <<url_queue, visited, visited_lock, paused, cancelled, threads,
                   thread_lock, results_queue, batch, db, dbTable, wtask, bpc, ui, scan,
                   cancelRet, getRet, emitted, crawlCalls, base_url, writeFailed,
                   linksLeft, now, domain_last_request, rpc, rcur, rdom, rwake, requests,
                   linkPages, arrivals, whoisCalls, removeTries, locksLeft, failed, retry,
                   dropped, robots_txt, robots_rules, crawl_resources, site, expansions,
                   graph, norm, timeout>>

\* line 375: url_queue.get(timeout=1) returns the smallest task
WorkerGet(w) ==
    /\ wpc[w] = "get"
    /\ url_queue # <<>>
    /\ wtask' = [wtask EXCEPT ![w] = Head(url_queue)]
    /\ url_queue' = Tail(url_queue)
    /\ arrivals' = RemoveFirst(arrivals, Head(url_queue))
    /\ wpc' = [wpc EXCEPT ![w] = "vlock"]
    /\ UNCHANGED <<visited, visited_lock, paused, cancelled, threads, thread_lock,
                   results_queue, batch, db, dbTable, bpc, ui, scan, cancelRet, getRet,
                   emitted, crawlCalls, base_url, writeFailed, linksLeft, now,
                   domain_last_request, rpc, rcur, rdom, rwake, requests, linkPages,
                   whoisCalls, removeTries, locksLeft, failed, retry, dropped, robots_txt,
                   robots_rules, crawl_resources, site, expansions, graph, norm, timeout>>

\* an idle-out test that does not look at the pause flag
IdleWhilePaused == url_queue = <<>>

\* lines 396 and 399: self.url_queue.empty() and not self.paused.is_set()
IdleAndNotPaused == url_queue = <<>> /\ ~paused

\* lines 394-396: queue.Empty after the timeout, first idle-out test
WorkerEmpty(w) ==
    /\ wpc[w] = "get"
    /\ url_queue = <<>>
    /\ wpc' = [wpc EXCEPT ![w] = IF IdleAndNotPaused THEN "sleep" ELSE "loop"]
    /\ UNCHANGED <<url_queue, visited, visited_lock, paused, cancelled, threads,
                   thread_lock, results_queue, batch, db, dbTable, wtask, bpc, ui, scan,
                   cancelRet, getRet, emitted, crawlCalls, base_url, writeFailed,
                   linksLeft, now, domain_last_request, rpc, rcur, rdom, rwake, requests,
                   linkPages, arrivals, whoisCalls, removeTries, locksLeft, failed, retry,
                   dropped, robots_txt, robots_rules, crawl_resources, site, expansions,
                   graph, norm, timeout>>

\* a worker that never leaves its loop for want of tasks
WorkerIdleOutLoops(w) ==
    /\ wpc[w] = "sleep"
    /\ wpc' = [wpc EXCEPT ![w] = "loop"]
    /\ UNCHANGED <<url_queue, visited, visited_lock, paused, cancelled, threads,
                   thread_lock, results_queue, batch, db, dbTable, wtask, bpc, ui, scan,
                   cancelRet, getRet, emitted, crawlCalls, base_url, writeFailed,
                   linksLeft, now, domain_last_request, rpc, rcur, rdom, rwake, requests,
                   linkPages, arrivals, whoisCalls, removeTries, locksLeft, failed, retry,
                   dropped, robots_txt, robots_rules, crawl_resources, site, expansions,
                   graph, norm, timeout>>

\* lines 398-400: after time.sleep(1), second idle-out test
WorkerIdleOut(w) ==
    /\ wpc[w] = "sleep"
    /\ wpc' = [wpc EXCEPT ![w] = IF IdleAndNotPaused THEN "exit" ELSE "loop"]
    /\ UNCHANGED <<url_queue, visited, visited_lock, paused, cancelled, threads,
                   thread_lock, results_queue, batch, db, dbTable, wtask, bpc, ui, scan,
                   cancelRet, getRet, emitted, crawlCalls, base_url, writeFailed,
                   linksLeft, now, domain_last_request, rpc, rcur, rdom, rwake, requests,
                   linkPages, arrivals, whoisCalls, removeTries, locksLeft, failed, retry,
                   dropped, robots_txt, robots_rules, crawl_resources, site, expansions,
                   graph, norm, timeout>>

\* line 378: with self.visited_lock
WorkerLock(w) ==
    /\ wpc[w] = "vlock"
    /\ VisitedLockFree
    /\ visited_lock' = w
    /\ wpc' = [wpc EXCEPT ![w] = "vcheck"]
    /\ UNCHANGED <<url_queue, visited, paused, cancelled, threads, thread_lock,
                   results_queue, batch, db, dbTable, wtask, bpc, ui, scan, cancelRet,
                   getRet, emitted, crawlCalls, base_url, writeFailed, linksLeft, now,
                   domain_last_request, rpc, rcur, rdom, rwake, requests, linkPages,
                   arrivals, whoisCalls, removeTries, locksLeft, failed, retry, dropped,
                   robots_txt, robots_rules, crawl_resources, site, expansions, graph,
                   norm, timeout>>

\* lines 379-381: test of the visited set; a visited URL is dropped
WorkerCheck(w) ==
    /\ wpc[w] = "vcheck"
    /\ IF wtask[w][2] \in visited
          THEN /\ wpc' = [wpc EXCEPT ![w] = "loop"]
               /\ wtask' = [wtask EXCEPT ![w] = NoTask]
               /\ visited_lock' = IF visited_lock = w THEN NoThread ELSE visited_lock
          ELSE /\ wpc' = [wpc EXCEPT ![w] = "vadd"]
               /\ UNCHANGED <<wtask, visited_lock>>
    /\ UNCHANGED <<url_queue, visited, paused, cancelled, threads, thread_lock,
                   results_queue, batch, db, dbTable, bpc, ui, scan, cancelRet, getRet,
                   emitted, crawlCalls, base_url, writeFailed, linksLeft, now,
                   domain_last_request, rpc, rcur, rdom, rwake, requests, linkPages,
                   arrivals, whoisCalls, removeTries, locksLeft, failed, retry, dropped,
                   robots_txt, robots_rules, crawl_resources, site, expansions, graph,
                   norm, timeout>>

\* lines 382-386 and 300-303: insert into visited, leave the lock, enter
\* _crawl_url and evaluate its two entry tests
WorkerClaim(w) ==
    /\ wpc[w] = "vadd"
    /\ visited' = visited \cup {wtask[w][2]}
    /\ visited_lock' = IF visited_lock = w THEN NoThread ELSE visited_lock
    /\ crawlCalls' = crawlCalls (+) SetToBag({wtask[w][2]})
    /\ IF cancelled
          THEN /\ wpc' = [wpc EXCEPT ![w] = "loop"]
               /\ wtask' = [wtask EXCEPT ![w] = NoTask]
          ELSE /\ wpc' = [wpc EXCEPT ![w] = IF paused THEN "pause_chk" ELSE "fetch"]
               /\ UNCHANGED wtask
    /\ UNCHANGED <<url_queue, paused, cancelled, threads, thread_lock, results_queue,
                   batch, db, dbTable, bpc, ui, scan, cancelRet, getRet, emitted, base_url,
                   writeFailed, linksLeft, now, domain_last_request, rpc, rcur, rdom,
                   rwake, requests, linkPages, arrivals, whoisCalls, removeTries,
                   locksLeft, failed, retry, dropped, robots_txt, robots_rules,
                   crawl_resources, site, expansions, graph, norm, timeout>>

\* a pause loop that gives the task up whether or not the crawl is cancelled
WorkerPauseReturns(w) ==
    /\ wpc[w] = "pause_chk"
    /\ wpc' = [wpc EXCEPT ![w] = "loop"]
    /\ wtask' = [wtask EXCEPT ![w] = NoTask]
    /\ UNCHANGED <<url_queue, visited, visited_lock, paused, cancelled, threads,
                   thread_lock, results_queue, batch, db, dbTable, bpc, ui, scan,
                   cancelRet, getRet, emitted, crawlCalls, base_url, writeFailed,
                   linksLeft, now, domain_last_request, rpc, rcur, rdom, rwake, requests,
                   linkPages, arrivals, whoisCalls, removeTries, locksLeft, failed, retry,
                   dropped, robots_txt, robots_rules, crawl_resources, site, expansions,
                   graph, norm, timeout>>

\* lines 304-306: inside the pause loop
WorkerPauseCancelled(w) ==
    /\ wpc[w] = "pause_chk"
    /\ IF cancelled
          THEN /\ wpc' = [wpc EXCEPT ![w] = "loop"]
               /\ wtask' = [wtask EXCEPT ![w] = NoTask]
          ELSE /\ wpc' = [wpc EXCEPT ![w] = "pause_again"]
               /\ UNCHANGED wtask
    /\ UNCHANGED <<url_queue, visited, visited_lock, paused, cancelled, threads,
                   thread_lock, results_queue, batch, db, dbTable, bpc, ui, scan,
                   cancelRet, getRet, emitted, crawlCalls, base_url, writeFailed,
                   linksLeft, now, domain_last_request, rpc, rcur, rdom, rwake, requests,
                   linkPages, arrivals, whoisCalls, removeTries, locksLeft, failed, retry,
                   dropped, robots_txt, robots_rules, crawl_resources, site, expansions,
                   graph, norm, timeout>>

\* line 303: the loop test of the pause loop, evaluated again after the sleep
WorkerPauseAgain(w) ==
    /\ wpc[w] = "pause_again"
    /\ wpc' = [wpc EXCEPT ![w] = IF paused THEN "pause_chk" ELSE "fetch"]
    /\ UNCHANGED <<url_queue, visited, visited_lock, paused, cancelled, threads,
                   thread_lock, results_queue, batch, db, dbTable, wtask, bpc, ui, scan,
                   cancelRet, getRet, emitted, crawlCalls, base_url, writeFailed,
                   linksLeft, now, domain_last_request, rpc, rcur, rdom, rwake, requests,
                   linkPages, arrivals, whoisCalls, removeTries, locksLeft, failed, retry,
                   dropped, robots_txt, robots_rules, crawl_resources, site, expansions,
                   graph, norm, timeout>>

\* a fetch whose failure leaves _crawl_url before the result is put
NoResultOnFailure(res) == IF res.status = RequestFailed THEN <<>> ELSE <<res>>

\* lines 337-345: the result put on the results queue, whatever the status
PutResult(res) == <<res>>

\* lines 308-357 and 388: fetch (with its retries), put the result, follow links
WorkerFetch(w) ==
    /\ wpc[w] = "fetch"
    /\ \E out \in {o \in Outcomes : Served(wtask[w][2], o)} :
          LET depth == wtask[w][1]
              url == wtask[w][2]
              res == CrawlResult(url, out.status, wtask[w][3], depth)
              fresh == _extract_links(url, out.links, visited)
              follow == Expandable(res, out) /\ out.links # <<>>
          IN /\ results_queue' = results_queue \o PutResult(res)
             /\ emitted' = emitted (+) SetToBag({PutResult(res)[i] : i \in 1..Len(PutResult(res))})
             /\ failed' = IF out.status = RequestFailed THEN failed \cup {url} ELSE failed
             /\ linksLeft' = linksLeft - Len(out.links)
             /\ url_queue' =
                   IF follow
                      THEN EnqueueLinks(url_queue, fresh, visited, depth, url)
                      ELSE url_queue
             /\ arrivals' =
                   IF follow
                      THEN arrivals \o PutLinks(fresh, visited, depth, url)
                      ELSE arrivals
             /\ expansions' =
                   IF follow
                      THEN expansions \cup {[url |-> url, depth |-> depth, tags |-> out.links,
                                              seen |-> visited,
                                              put |-> PutLinks(fresh, visited, depth, url)]}
                      ELSE expansions
             /\ linkPages' =
                   IF fresh # <<>>
                      THEN linkPages \cup {[url |-> url, depth |-> depth, status |-> out.status,
                                            html |-> out.html, followed |-> follow]}
                      ELSE linkPages
    /\ wpc' = [wpc EXCEPT ![w] = "loop"]
    /\ wtask' = [wtask EXCEPT ![w] = NoTask]
    /\ UNCHANGED <<visited, visited_lock, paused, cancelled, threads, thread_lock, batch,
                   db, dbTable, bpc, ui, scan, cancelRet, getRet, crawlCalls, base_url,
                   writeFailed, now, domain_last_request, rpc, rcur, rdom, rwake, requests,
                   whoisCalls, removeTries, locksLeft, retry, dropped, robots_txt,
                   robots_rules, crawl_resources, site, graph, norm, timeout>>

Worker(w) ==
    \/ WorkerLoop(w)
    \/ WorkerGet(w)
    \/ WorkerEmpty(w)
    \/ WorkerIdleOut(w)
    \/ WorkerLock(w)
    \/ WorkerCheck(w)
    \/ WorkerClaim(w)
    \/ WorkerPauseCancelled(w)
    \/ WorkerPauseAgain(w)
    \/ WorkerFetch(w)

----------------------------------------------------------------------------
(* Result sink: Spider._process_batches and Spider._write_batch_to_db *)

\* a write that replaces the table by the new row
ReplaceTable(rows, r) == {r}

\* INSERT OR REPLACE of one row: url is the primary key
InsertOrReplace(rows, r) == {x \in rows : x.url # r.url} \cup {r}

\* lines 286-290: executemany + commit
RECURSIVE _write_batch_to_db(_, _)
_write_batch_to_db(rows, b) ==
    IF b = <<>> THEN rows
    ELSE _write_batch_to_db(InsertOrReplace(rows, Head(b)), Tail(b))

\* outcomes of a write: it raises when the table is gone, and may raise otherwise
WriteOutcomes == IF dbTable THEN {TRUE, FALSE} ELSE {FALSE}

\* the elements of a list
Elements(s) == {s[i] : i \in 1..Len(s)}

\* a sink whose writes have no effect once one write has raised
FlushUntilFailure(b) ==
    \E ok \in WriteOutcomes :
        /\ db' = IF ok /\ ~writeFailed THEN _write_batch_to_db(db, b) ELSE db
        /\ writeFailed' = (writeFailed \/ ~ok)
        /\ dropped' = IF ok THEN dropped ELSE dropped \cup Elements(b)

\* lines 280-296, flush batch b: the store after the write, or the same store
\* after an error, which is caught and logged
Flush(b) ==
    \E ok \in WriteOutcomes :
        /\ db' = IF ok THEN _write_batch_to_db(db, b) ELSE db
        /\ writeFailed' = (writeFailed \/ ~ok)
        /\ dropped' = IF ok THEN dropped ELSE dropped \cup Elements(b)

\* line 249: loop test of _process_batches
BatchLoop ==
    /\ bpc = "loop"
    /\ bpc' = IF cancelled THEN "final" ELSE "get"
    /\ UNCHANGED <<url_queue, visited, visited_lock, paused, cancelled, threads,
                   thread_lock, results_queue, batch, db, dbTable, wpc, wtask, ui, scan,
                   cancelRet, getRet, emitted, crawlCalls, base_url, writeFailed,
                   linksLeft, now, domain_last_request, rpc, rcur, rdom, rwake, requests,
                   linkPages, arrivals, whoisCalls, removeTries, locksLeft, failed, retry,
                   dropped, robots_txt, robots_rules, crawl_resources, site, expansions,
                   graph, norm, timeout>>

\* a consumer that collects the results and writes none before its loop ends
BatchGetKeepsBatch ==
    /\ bpc = "get"
    /\ results_queue # <<>>
    /\ results_queue' = Tail(results_queue)
    /\ batch' = Append(batch, Head(results_queue))
    /\ bpc' = "loop"
    /\ UNCHANGED <<url_queue, visited, visited_lock, paused, cancelled, threads,
                   thread_lock, db, dbTable, wpc, wtask, ui, scan, cancelRet, getRet,
                   emitted, crawlCalls, base_url, writeFailed, linksLeft, now,
                   domain_last_request, rpc, rcur, rdom, rwake, requests, linkPages,
                   arrivals, whoisCalls, removeTries, locksLeft, failed, retry, dropped,
                   robots_txt, robots_rules, crawl_resources, site, expansions, graph,
                   norm, timeout>>

\* lines 252-258: a result arrives within the timeout
BatchGet ==
    /\ bpc = "get"
    /\ results_queue # <<>>
    /\ results_queue' = Tail(results_queue)
    /\ LET b == Append(batch, Head(results_queue))
       IN IF Len(b) >= batch_size
             THEN Flush(b) /\ batch' = <<>>
             ELSE batch' = b /\ UNCHANGED <<db, writeFailed, dropped>>
    /\ bpc' = "loop"
    /\ UNCHANGED <<url_queue, visited, visited_lock, paused, cancelled, threads,
                   thread_lock, dbTable, wpc, wtask, ui, scan, cancelRet, getRet, emitted,
                   crawlCalls, base_url, linksLeft, now, domain_last_request, rpc, rcur,
                   rdom, rwake, requests, linkPages, arrivals, whoisCalls, removeTries,
                   locksLeft, failed, retry, robots_txt, robots_rules, crawl_resources,
                   site, expansions, graph, norm, timeout>>

\* lines 260-265: queue.Empty after the timeout
BatchIdle ==
    /\ bpc = "get"
    /\ results_queue = <<>>
    /\ IF batch # <<>>
          THEN Flush(batch) /\ batch' = <<>>
          ELSE UNCHANGED <<batch, db, writeFailed, dropped>>
    /\ bpc' = "loop"
    /\ UNCHANGED <<url_queue, visited, visited_lock, paused, cancelled, threads,
                   thread_lock, results_queue, dbTable, wpc, wtask, ui, scan, cancelRet,
                   getRet, emitted, crawlCalls, base_url, linksLeft, now,
                   domain_last_request, rpc, rcur, rdom, rwake, requests, linkPages,
                   arrivals, whoisCalls, removeTries, locksLeft, failed, retry, robots_txt,
                   robots_rules, crawl_resources, site, expansions, graph, norm, timeout>>

\* lines 270-278: after the loop
BatchFinal ==
    /\ bpc = "final"
    /\ IF batch # <<>>
          THEN Flush(batch) /\ batch' = <<>>
          ELSE UNCHANGED <<batch, db, writeFailed, dropped>>
    /\ bpc' = "done"
    /\ UNCHANGED <<url_queue, visited, visited_lock, paused, cancelled, threads,
                   thread_lock, results_queue, dbTable, wpc, wtask, ui, scan, cancelRet,
                   getRet, emitted, crawlCalls, base_url, linksLeft, now,
                   domain_last_request, rpc, rcur, rdom, rwake, requests, linkPages,
                   arrivals, whoisCalls, removeTries, locksLeft, failed, retry, robots_txt,
                   robots_rules, crawl_resources, site, expansions, graph, norm, timeout>>

BatchProcessor == BatchLoop \/ BatchGet \/ BatchIdle \/ BatchFinal

----------------------------------------------------------------------------
(* Controller operations, as called by the two threads of main.py *)

ThreadLockFree == thread_lock = NoThread

active_threads == Cardinality({w \in threads : is_alive(w)})

\* SELECT * FROM results; an error (no such table) is caught and leaves the list empty
SelectAll == IF dbTable THEN db ELSE {}

\* the threads that are not running
Fresh(ids) == {w \in ids : ~is_alive(w)}

\* a pool of n fresh threads (threading.Thread(...).start(), n times)
Pool(n) ==
    IF Cardinality(Fresh(Workers)) >= n
       THEN CHOOSE S \in SUBSET Fresh(Workers) : Cardinality(S) = n
       ELSE CHOOSE S \in SUBSET Fresh(ThreadIds) : Cardinality(S) = n

Min(a, b) == IF a < b THEN a ELSE b

\* a join without timeout: returns only once the thread has ended
JoinForever(alive, timedOut) == ~alive

\* thread.join(timeout=...): returns once the thread has ended or the timeout
\* has expired
JoinReturns(alive, timedOut) == ~alive \/ timedOut

\* a pause() that does not look at the cancellation flag
PauseIgnoresCancel ==
    /\ ui = "idle"
    /\ ~paused
    /\ paused' = TRUE
    /\ UNCHANGED <<url_queue, visited, visited_lock, cancelled, threads, thread_lock,
                   results_queue, batch, db, dbTable, wpc, wtask, bpc, ui, scan, cancelRet,
                   getRet, emitted, crawlCalls, base_url, writeFailed, linksLeft, now,
                   domain_last_request, rpc, rcur, rdom, rwake, requests, linkPages,
                   arrivals, whoisCalls, removeTries, locksLeft, failed, retry, dropped,
                   robots_txt, robots_rules, crawl_resources, site, expansions, graph,
                   norm, timeout>>

\* main.py pause_scan -> Spider.pause, lines 439-443; it only logs when the
\* crawl is cancelled
Pause ==
    /\ ui = "idle"
    /\ ~paused
    /\ IF cancelled THEN UNCHANGED paused ELSE paused' = TRUE
    /\ UNCHANGED <<url_queue, visited, visited_lock, cancelled, threads, thread_lock,
                   results_queue, batch, db, dbTable, wpc, wtask, bpc, ui, scan, cancelRet,
                   getRet, emitted, crawlCalls, base_url, writeFailed, linksLeft, now,
                   domain_last_request, rpc, rcur, rdom, rwake, requests, linkPages,
                   arrivals, whoisCalls, removeTries, locksLeft, failed, retry, dropped,
                   robots_txt, robots_rules, crawl_resources, site, expansions, graph,
                   norm, timeout>>

\* main.py resume_scan -> Spider.resume, lines 447-449 and 460-461 (it only
\* logs when the crawl is cancelled); the UI offers it for a crawl that
\* crawl() has started
ResumeClear ==
    /\ ui = "idle"
    /\ scan \notin {"init", "start_lock", "start"}
    /\ IF cancelled
          THEN UNCHANGED <<paused, ui>>
          ELSE paused' = FALSE /\ ui' = "resume_lock"
    /\ UNCHANGED <<url_queue, visited, visited_lock, cancelled, threads, thread_lock,
                   results_queue, batch, db, dbTable, wpc, wtask, bpc, scan, cancelRet,
                   getRet, emitted, crawlCalls, base_url, writeFailed, linksLeft, now,
                   domain_last_request, rpc, rcur, rdom, rwake, requests, linkPages,
                   arrivals, whoisCalls, removeTries, locksLeft, failed, retry, dropped,
                   robots_txt, robots_rules, crawl_resources, site, expansions, graph,
                   norm, timeout>>

\* Spider.resume, lines 447-449, called on a Spider whose crawl() has not been
\* called yet
ResumeUnstarted ==
    /\ ui = "idle"
    /\ scan = "init"
    /\ IF cancelled
          THEN UNCHANGED <<paused, ui>>
          ELSE paused' = FALSE /\ ui' = "resume_lock"
    /\ UNCHANGED <<url_queue, visited, visited_lock, cancelled, threads, thread_lock,
                   results_queue, batch, db, dbTable, wpc, wtask, bpc, scan, cancelRet,
                   getRet, emitted, crawlCalls, base_url, writeFailed, linksLeft, now,
                   domain_last_request, rpc, rcur, rdom, rwake, requests, linkPages,
                   arrivals, whoisCalls, removeTries, locksLeft, failed, retry, dropped,
                   robots_txt, robots_rules, crawl_resources, site, expansions, graph,
                   norm, timeout>>

\* Spider.resume, line 452: with self.thread_lock
ResumeLock ==
    /\ ui = "resume_lock"
    /\ ThreadLockFree
    /\ thread_lock' = "ui"
    /\ ui' = "resume_start"
    /\ UNCHANGED <<url_queue, visited, visited_lock, paused, cancelled, threads,
                   results_queue, batch, db, dbTable, wpc, wtask, bpc, scan, cancelRet,
                   getRet, emitted, crawlCalls, base_url, writeFailed, linksLeft, now,
                   domain_last_request, rpc, rcur, rdom, rwake, requests, linkPages,
                   arrivals, whoisCalls, removeTries, locksLeft, failed, retry, dropped,
                   robots_txt, robots_rules, crawl_resources, site, expansions, graph,
                   norm, timeout>>

\* Spider.resume, lines 453-459
ResumeStart ==
    /\ ui = "resume_start"
    /\ thread_lock' = NoThread
    /\ IF active_threads = 0 /\ url_queue # <<>>
          THEN LET pool == Pool(Min(max_threads, Len(url_queue)))
               IN /\ threads' = pool
                  /\ wpc' = [w \in ThreadIds |-> IF w \in pool THEN "loop" ELSE wpc[w]]
          ELSE UNCHANGED <<threads, wpc>>
    /\ ui' = "idle"
    /\ UNCHANGED <<url_queue, visited, visited_lock, paused, cancelled, results_queue,
                   batch, db, dbTable, wtask, bpc, scan, cancelRet, getRet, emitted,
                   crawlCalls, base_url, writeFailed, linksLeft, now, domain_last_request,
                   rpc, rcur, rdom, rwake, requests, linkPages, arrivals, whoisCalls,
                   removeTries, locksLeft, failed, retry, dropped, robots_txt,
                   robots_rules, crawl_resources, site, expansions, graph, norm, timeout>>

\* main.py cancel_scan -> Spider.cancel, line 465
CancelSet ==
    /\ ui = "idle"
    /\ cancelled' = TRUE
    /\ ui' = "cancel_clear"
    /\ UNCHANGED <<url_queue, visited, visited_lock, paused, threads, thread_lock,
                   results_queue, batch, db, dbTable, wpc, wtask, bpc, scan, cancelRet,
                   getRet, emitted, crawlCalls, base_url, writeFailed, linksLeft, now,
                   domain_last_request, rpc, rcur, rdom, rwake, requests, linkPages,
                   arrivals, whoisCalls, removeTries, locksLeft, failed, retry, dropped,
                   robots_txt, robots_rules, crawl_resources, site, expansions, graph,
                   norm, timeout>>

\* Spider.cancel, line 466
CancelClear ==
    /\ ui = "cancel_clear"
    /\ paused' = FALSE
    /\ ui' = "cancel_lock"
    /\ UNCHANGED <<url_queue, visited, visited_lock, cancelled, threads, thread_lock,
                   results_queue, batch, db, dbTable, wpc, wtask, bpc, scan, cancelRet,
                   getRet, emitted, crawlCalls, base_url, writeFailed, linksLeft, now,
                   domain_last_request, rpc, rcur, rdom, rwake, requests, linkPages,
                   arrivals, whoisCalls, removeTries, locksLeft, failed, retry, dropped,
                   robots_txt, robots_rules, crawl_resources, site, expansions, graph,
                   norm, timeout>>

\* Spider.cancel, line 469: with self.thread_lock
CancelLock ==
    /\ ui = "cancel_lock"
    /\ ThreadLockFree
    /\ thread_lock' = "ui"
    /\ ui' = "cancel_join"
    /\ UNCHANGED <<url_queue, visited, visited_lock, paused, cancelled, threads,
                   results_queue, batch, db, dbTable, wpc, wtask, bpc, scan, cancelRet,
                   getRet, emitted, crawlCalls, base_url, writeFailed, linksLeft, now,
                   domain_last_request, rpc, rcur, rdom, rwake, requests, linkPages,
                   arrivals, whoisCalls, removeTries, locksLeft, failed, retry, dropped,
                   robots_txt, robots_rules, crawl_resources, site, expansions, graph,
                   norm, timeout>>

\* Spider.cancel, lines 470-472: join every live worker with a timeout, then
\* release the lock
CancelJoin ==
    /\ ui = "cancel_join"
    /\ \E timedOut \in BOOLEAN : \A w \in threads : JoinReturns(is_alive(w), timedOut)
    /\ thread_lock' = NoThread
    /\ ui' = "cancel_read"
    /\ UNCHANGED <<url_queue, visited, visited_lock, paused, cancelled, threads,
                   results_queue, batch, db, dbTable, wpc, wtask, bpc, scan, cancelRet,
                   getRet, emitted, crawlCalls, base_url, writeFailed, linksLeft, now,
                   domain_last_request, rpc, rcur, rdom, rwake, requests, linkPages,
                   arrivals, whoisCalls, removeTries, locksLeft, failed, retry, dropped,
                   robots_txt, robots_rules, crawl_resources, site, expansions, graph,
                   norm, timeout>>

\* Spider.cancel, lines 475-501: bounded join of the batch processor, then read
CancelRead ==
    /\ ui = "cancel_read"
    /\ \E timedOut \in BOOLEAN : JoinReturns(bpc # "done", timedOut)
    /\ cancelRet' = SelectAll
    /\ ui' = "cancel_cleanup"
    /\ UNCHANGED <<url_queue, visited, visited_lock, paused, cancelled, threads,
                   thread_lock, results_queue, batch, db, dbTable, wpc, wtask, bpc, scan,
                   getRet, emitted, crawlCalls, base_url, writeFailed, linksLeft, now,
                   domain_last_request, rpc, rcur, rdom, rwake, requests, linkPages,
                   arrivals, whoisCalls, removeTries, locksLeft, failed, retry, dropped,
                   robots_txt, robots_rules, crawl_resources, site, expansions, graph,
                   norm, timeout>>

\* main.py lines 287-295 and 453-461: the domains of the external rows of a
\* result list; each is looked up once, seen_domains serving the repeats
ExternalDomains(results) == {r.domain : r \in {x \in results : x.type = "external"}}

\* line 113
max_retries == 3

\* a removal that is tried until it succeeds
RemoveTriesUnbounded(locked) == locked + 1

\* lines 114-123: the os.remove attempts of one _cleanup call when the file
\* is locked at the first 'locked' attempts
RemoveTries(locked) == Min(locked + 1, max_retries)

\* Spider._cleanup: the connection of line 104 creates the file if it is gone;
\* the file is removed unless every attempt found it locked, and then the
\* error is logged and the store stays as it is
_cleanup ==
    \E locked \in 0..locksLeft :
        LET tries == RemoveTries(locked)
        IN /\ removeTries' = IF tries > removeTries THEN tries ELSE removeTries
           /\ locksLeft' = locksLeft - Min(locked, tries)
           /\ IF locked < tries
                 THEN db' = {} /\ dbTable' = FALSE
                 ELSE UNCHANGED <<db, dbTable>>

\* main.py cancel_scan, lines 275-325: look up the external domains of the
\* rows cancel() returned, then Spider._cleanup removes the database file
CancelCleanup ==
    /\ ui = "cancel_cleanup"
    /\ whoisCalls' = whoisCalls (+) SetToBag(ExternalDomains(cancelRet))
    /\ _cleanup
    /\ ui' = "idle"
    /\ UNCHANGED <<url_queue, visited, visited_lock, paused, cancelled, threads,
                   thread_lock, results_queue, batch, wpc, wtask, bpc, scan, cancelRet,
                   getRet, emitted, crawlCalls, base_url, writeFailed, linksLeft, now,
                   domain_last_request, rpc, rcur, rdom, rwake, requests, linkPages,
                   arrivals, failed, retry, dropped, robots_txt, robots_rules,
                   crawl_resources, site, expansions, graph, norm, timeout>>

\* main.py run_scan_thread line 433 -> Spider.crawl(url), lines 410-420; the
\* DELETE raises when the table is gone and the scan thread dies with it
CrawlReset ==
    /\ scan = "init"
    /\ url_queue' = <<<<0, base_url, Root>>>>
    /\ arrivals' = <<<<0, base_url, Root>>>>
    /\ visited' = {}
    /\ IF dbTable
          THEN db' = {} /\ scan' = "start_lock"
          ELSE UNCHANGED db /\ scan' = "done"
    /\ UNCHANGED <<visited_lock, paused, cancelled, threads, thread_lock, results_queue,
                   batch, dbTable, wpc, wtask, bpc, ui, cancelRet, getRet, emitted,
                   crawlCalls, base_url, writeFailed, linksLeft, now, domain_last_request,
                   rpc, rcur, rdom, rwake, requests, linkPages, whoisCalls, removeTries,
                   locksLeft, failed, retry, dropped, robots_txt, robots_rules,
                   crawl_resources, site, expansions, graph, norm, timeout>>

\* Spider.crawl, line 423: with self.thread_lock
CrawlLock ==
    /\ scan = "start_lock"
    /\ ThreadLockFree
    /\ thread_lock' = "scan"
    /\ scan' = "start"
    /\ UNCHANGED <<url_queue, visited, visited_lock, paused, cancelled, threads,
                   results_queue, batch, db, dbTable, wpc, wtask, bpc, ui, cancelRet,
                   getRet, emitted, crawlCalls, base_url, writeFailed, linksLeft, now,
                   domain_last_request, rpc, rcur, rdom, rwake, requests, linkPages,
                   arrivals, whoisCalls, removeTries, locksLeft, failed, retry, dropped,
                   robots_txt, robots_rules, crawl_resources, site, expansions, graph,
                   norm, timeout>>

\* Spider.crawl, lines 424-429: start max_threads workers, release the lock
CrawlStart ==
    /\ scan = "start"
    /\ LET pool == Pool(max_threads)
       IN /\ threads' = pool
          /\ wpc' = [w \in ThreadIds |-> IF w \in pool THEN "loop" ELSE wpc[w]]
    /\ thread_lock' = NoThread
    /\ scan' = "poll"
    /\ UNCHANGED <<url_queue, visited, visited_lock, paused, cancelled, results_queue,
                   batch, db, dbTable, wtask, bpc, ui, cancelRet, getRet, emitted,
                   crawlCalls, base_url, writeFailed, linksLeft, now, domain_last_request,
                   rpc, rcur, rdom, rwake, requests, linkPages, arrivals, whoisCalls,
                   removeTries, locksLeft, failed, retry, dropped, robots_txt,
                   robots_rules, crawl_resources, site, expansions, graph, norm, timeout>>

\* main.py run_scan_thread, line 438: with spider.thread_lock
PollLock ==
    /\ scan = "poll"
    /\ ThreadLockFree
    /\ thread_lock' = "scan"
    /\ scan' = "poll_count"
    /\ UNCHANGED <<url_queue, visited, visited_lock, paused, cancelled, threads,
                   results_queue, batch, db, dbTable, wpc, wtask, bpc, ui, cancelRet,
                   getRet, emitted, crawlCalls, base_url, writeFailed, linksLeft, now,
                   domain_last_request, rpc, rcur, rdom, rwake, requests, linkPages,
                   arrivals, whoisCalls, removeTries, locksLeft, failed, retry, dropped,
                   robots_txt, robots_rules, crawl_resources, site, expansions, graph,
                   norm, timeout>>

\* main.py run_scan_thread, lines 439-442: count the live workers, release
\* the lock, leave the loop when none is alive
PollCount ==
    /\ scan = "poll_count"
    /\ thread_lock' = NoThread
    /\ scan' = IF active_threads = 0 THEN "get_results" ELSE "poll"
    /\ UNCHANGED <<url_queue, visited, visited_lock, paused, cancelled, threads,
                   results_queue, batch, db, dbTable, wpc, wtask, bpc, ui, cancelRet,
                   getRet, emitted, crawlCalls, base_url, writeFailed, linksLeft, now,
                   domain_last_request, rpc, rcur, rdom, rwake, requests, linkPages,
                   arrivals, whoisCalls, removeTries, locksLeft, failed, retry, dropped,
                   robots_txt, robots_rules, crawl_resources, site, expansions, graph,
                   norm, timeout>>

\* main.py line 445 -> Spider.get_results: bounded join of the batch
\* processor, then read
GetResults ==
    /\ scan = "get_results"
    /\ \E timedOut \in BOOLEAN : JoinReturns(bpc # "done", timedOut)
    /\ getRet' = SelectAll
    /\ scan' = "cleanup"
    /\ UNCHANGED <<url_queue, visited, visited_lock, paused, cancelled, threads,
                   thread_lock, results_queue, batch, db, dbTable, wpc, wtask, bpc, ui,
                   cancelRet, emitted, crawlCalls, base_url, writeFailed, linksLeft, now,
                   domain_last_request, rpc, rcur, rdom, rwake, requests, linkPages,
                   arrivals, whoisCalls, removeTries, locksLeft, failed, retry, dropped,
                   robots_txt, robots_rules, crawl_resources, site, expansions, graph,
                   norm, timeout>>

\* main.py run_scan_thread, lines 448-488: look up the external domains of the
\* rows get_results() returned, then Spider._cleanup
ScanCleanup ==
    /\ scan = "cleanup"
    /\ whoisCalls' = whoisCalls (+) SetToBag(ExternalDomains(getRet))
    /\ _cleanup
    /\ scan' = "done"
    /\ UNCHANGED <<url_queue, visited, visited_lock, paused, cancelled, threads,
                   thread_lock, results_queue, batch, wpc, wtask, bpc, ui, cancelRet,
                   getRet, emitted, crawlCalls, base_url, writeFailed, linksLeft, now,
                   domain_last_request, rpc, rcur, rdom, rwake, requests, linkPages,
                   arrivals, failed, retry, dropped, robots_txt, robots_rules,
                   crawl_resources, site, expansions, graph, norm, timeout>>

UiThread ==
    \/ Pause
    \/ ResumeClear
    \/ ResumeLock
    \/ ResumeStart
    \/ CancelSet
    \/ CancelClear
    \/ CancelLock
    \/ CancelJoin
    \/ CancelRead
    \/ CancelCleanup

ScanThread ==
    \/ CrawlReset
    \/ CrawlLock
    \/ CrawlStart
    \/ PollLock
    \/ PollCount
    \/ GetResults
    \/ ScanCleanup

----------------------------------------------------------------------------
(* Rate limiter: Spider._respect_rate_limit, called by every worker at
   line 309 before it issues the request of line 322 *)

Domains == {"h", "x"}

\* domain_last_request has no entry for the domain
NoTime == -1

\* line 156: current_time = time.time(); the locals of a call are cleared
\* once they are dead
RateEnter(w) ==
    /\ rpc[w] = "off"
    /\ \E d \in Domains : rdom' = [rdom EXCEPT ![w] = d]
    /\ rcur' = [rcur EXCEPT ![w] = now]
    /\ rpc' = [rpc EXCEPT ![w] = "check"]
    /\ UNCHANGED <<url_queue, visited, visited_lock, paused, cancelled, threads,
                   thread_lock, results_queue, batch, db, dbTable, wpc, wtask, bpc, ui,
                   scan, cancelRet, getRet, emitted, crawlCalls, base_url, writeFailed,
                   linksLeft, now, domain_last_request, rwake, requests, linkPages,
                   arrivals, whoisCalls, removeTries, locksLeft, failed, retry, dropped,
                   robots_txt, robots_rules, crawl_resources, site, expansions, graph,
                   norm, timeout>>

\* lines 157-160: read the domain's entry and decide whether to sleep
RateCheck(w) ==
    /\ rpc[w] = "check"
    /\ LET last == domain_last_request[rdom[w]]
           elapsed == rcur[w] - last
       IN IF last # NoTime /\ elapsed < delay
             THEN /\ rwake' = [rwake EXCEPT ![w] = now + (delay - elapsed)]
                  /\ rpc' = [rpc EXCEPT ![w] = "sleep"]
             ELSE /\ rpc' = [rpc EXCEPT ![w] = "write"]
                  /\ UNCHANGED rwake
    /\ rcur' = [rcur EXCEPT ![w] = 0]
    /\ UNCHANGED <<url_queue, visited, visited_lock, paused, cancelled, threads,
                   thread_lock, results_queue, batch, db, dbTable, wpc, wtask, bpc, ui,
                   scan, cancelRet, getRet, emitted, crawlCalls, base_url, writeFailed,
                   linksLeft, now, domain_last_request, rdom, requests, linkPages,
                   arrivals, whoisCalls, removeTries, locksLeft, failed, retry, dropped,
                   robots_txt, robots_rules, crawl_resources, site, expansions, graph,
                   norm, timeout>>

\* line 160: time.sleep returns
RateWake(w) ==
    /\ rpc[w] = "sleep"
    /\ now >= rwake[w]
    /\ rpc' = [rpc EXCEPT ![w] = "write"]
    /\ rwake' = [rwake EXCEPT ![w] = 0]
    /\ UNCHANGED <<url_queue, visited, visited_lock, paused, cancelled, threads,
                   thread_lock, results_queue, batch, db, dbTable, wpc, wtask, bpc, ui,
                   scan, cancelRet, getRet, emitted, crawlCalls, base_url, writeFailed,
                   linksLeft, now, domain_last_request, rcur, rdom, requests, linkPages,
                   arrivals, whoisCalls, removeTries, locksLeft, failed, retry, dropped,
                   robots_txt, robots_rules, crawl_resources, site, expansions, graph,
                   norm, timeout>>

\* line 162 and line 322: store the time and start the request
RateWrite(w) ==
    /\ rpc[w] = "write"
    /\ domain_last_request' = [domain_last_request EXCEPT ![rdom[w]] = now]
    /\ requests' = requests \cup {<<w, rdom[w], now>>}
    /\ rpc' = [rpc EXCEPT ![w] = "off"]
    /\ rdom' = [rdom EXCEPT ![w] = "h"]
    /\ UNCHANGED <<url_queue, visited, visited_lock, paused, cancelled, threads,
                   thread_lock, results_queue, batch, db, dbTable, wpc, wtask, bpc, ui,
                   scan, cancelRet, getRet, emitted, crawlCalls, base_url, writeFailed,
                   linksLeft, now, rcur, rwake, linkPages, arrivals, whoisCalls,
                   removeTries, locksLeft, failed, retry, dropped, robots_txt,
                   robots_rules, crawl_resources, site, expansions, graph, norm, timeout>>

\* the clock advances
Tick ==
    /\ now < MaxTime
    /\ now' = now + 1
    /\ UNCHANGED <<url_queue, visited, visited_lock, paused, cancelled, threads,
                   thread_lock, results_queue, batch, db, dbTable, wpc, wtask, bpc, ui,
                   scan, cancelRet, getRet, emitted, crawlCalls, base_url, writeFailed,
                   linksLeft, domain_last_request, rpc, rcur, rdom, rwake, requests,
                   linkPages, arrivals, whoisCalls, removeTries, locksLeft, failed, retry,
                   dropped, robots_txt, robots_rules, crawl_resources, site, expansions,
                   graph, norm, timeout>>

RateIdle ==
    /\ now = 0
    /\ domain_last_request = [d \in Domains |-> NoTime]
    /\ rpc = [w \in Workers |-> "off"]
    /\ rcur = [w \in Workers |-> 0]
    /\ rdom = [w \in Workers |-> "h"]
    /\ rwake = [w \in Workers |-> 0]
    /\ requests = {}

----------------------------------------------------------------------------
(* Retry loop: lines 313-332 of Spider._crawl_url, run by every worker for
   the task it fetches *)

\* line 315, in seconds
retry_delay == 1

\* the status codes of the responses the site gives
Statuses == {200, NotFound}

\* a worker outside the loop; tries, sleeps and answered are the history of
\* the call: requests issued, time.sleep arguments, a response has completed
RetryOff ==
    [pc |-> "off", attempt |-> 0, status |-> RequestFailed, tries |-> 0,
     sleeps |-> <<>>, answered |-> FALSE]

\* a backoff that does not grow
ConstantBackoff(attempt) == retry_delay

\* line 329: the argument of time.sleep after the failure of attempt
Backoff(attempt) == retry_delay * (attempt + 1)

\* lines 314-320: the locals are set and the loop is entered
RetryEnter(w) ==
    /\ retry[w].pc = "off"
    /\ retry' = [retry EXCEPT ![w] = [RetryOff EXCEPT !.pc = "get"]]
    /\ UNCHANGED <<url_queue, visited, visited_lock, paused, cancelled, threads,
                   thread_lock, results_queue, batch, db, dbTable, wpc, wtask, bpc, ui,
                   scan, cancelRet, getRet, emitted, crawlCalls, base_url, writeFailed,
                   linksLeft, now, domain_last_request, rpc, rcur, rdom, rwake, requests,
                   linkPages, arrivals, whoisCalls, removeTries, locksLeft, failed,
                   dropped, robots_txt, robots_rules, crawl_resources, site, expansions,
                   graph, norm, timeout>>

\* lines 322-325: requests.get returns a response; break
RetryResponse(w) ==
    /\ retry[w].pc = "get"
    /\ \E code \in Statuses :
          retry' = [retry EXCEPT ![w].status = code,
                                 ![w].tries = @ + 1,
                                 ![w].answered = TRUE,
                                 ![w].pc = "done"]
    /\ UNCHANGED <<url_queue, visited, visited_lock, paused, cancelled, threads,
                   thread_lock, results_queue, batch, db, dbTable, wpc, wtask, bpc, ui,
                   scan, cancelRet, getRet, emitted, crawlCalls, base_url, writeFailed,
                   linksLeft, now, domain_last_request, rpc, rcur, rdom, rwake, requests,
                   linkPages, arrivals, whoisCalls, removeTries, locksLeft, failed,
                   dropped, robots_txt, robots_rules, crawl_resources, site, expansions,
                   graph, norm, timeout>>

\* lines 326-332: requests.get raises a RequestException; sleep before
\* the next attempt, or count the error after the last one
RetryError(w) ==
    /\ retry[w].pc = "get"
    /\ retry' =
          IF retry[w].attempt < max_retries - 1
             THEN [retry EXCEPT ![w].tries = @ + 1,
                                ![w].sleeps = Append(@, Backoff(retry[w].attempt)),
                                ![w].attempt = @ + 1]
             ELSE [retry EXCEPT ![w].tries = @ + 1,
                                ![w].pc = "done"]
    /\ UNCHANGED <<url_queue, visited, visited_lock, paused, cancelled, threads,
                   thread_lock, results_queue, batch, db, dbTable, wpc, wtask, bpc, ui,
                   scan, cancelRet, getRet, emitted, crawlCalls, base_url, writeFailed,
                   linksLeft, now, domain_last_request, rpc, rcur, rdom, rwake, requests,
                   linkPages, arrivals, whoisCalls, removeTries, locksLeft, failed,
                   dropped, robots_txt, robots_rules, crawl_resources, site, expansions,
                   graph, norm, timeout>>

\* line 334: the loop is left with status set
RetryLeave(w) ==
    /\ retry[w].pc = "done"
    /\ retry' = [retry EXCEPT ![w] = RetryOff]
    /\ UNCHANGED <<url_queue, visited, visited_lock, paused, cancelled, threads,
                   thread_lock, results_queue, batch, db, dbTable, wpc, wtask, bpc, ui,
                   scan, cancelRet, getRet, emitted, crawlCalls, base_url, writeFailed,
                   linksLeft, now, domain_last_request, rpc, rcur, rdom, rwake, requests,
                   linkPages, arrivals, whoisCalls, removeTries, locksLeft, failed,
                   dropped, robots_txt, robots_rules, crawl_resources, site, expansions,
                   graph, norm, timeout>>

RetryIdle == retry = [w \in Workers |-> RetryOff]

----------------------------------------------------------------------------
(* The global timeout: Spider._check_timeout calls Spider.cancel() on the  *)
(* worker thread that finds the timeout elapsed                            *)

\* _check_timeout line 363 -> cancel, line 465
WorkerTimeoutSet(w) ==
    /\ wpc[w] = "t_cancel"
    /\ cancelled' = TRUE
    /\ wpc' = [wpc EXCEPT ![w] = "t_clear"]
    /\ UNCHANGED <<url_queue, visited, visited_lock, paused, threads, thread_lock,
                   results_queue, batch, db, dbTable, wtask, bpc, ui, scan, cancelRet,
                   getRet, emitted, crawlCalls, base_url, writeFailed, linksLeft, now,
                   domain_last_request, rpc, rcur, rdom, rwake, requests, linkPages,
                   arrivals, whoisCalls, removeTries, locksLeft, failed, retry, dropped,
                   robots_txt, robots_rules, crawl_resources, site, expansions, graph,
                   norm, timeout>>

\* cancel, line 466
WorkerTimeoutClear(w) ==
    /\ wpc[w] = "t_clear"
    /\ paused' = FALSE
    /\ wpc' = [wpc EXCEPT ![w] = "t_lock"]
    /\ UNCHANGED <<url_queue, visited, visited_lock, cancelled, threads, thread_lock,
                   results_queue, batch, db, dbTable, wtask, bpc, ui, scan, cancelRet,
                   getRet, emitted, crawlCalls, base_url, writeFailed, linksLeft, now,
                   domain_last_request, rpc, rcur, rdom, rwake, requests, linkPages,
                   arrivals, whoisCalls, removeTries, locksLeft, failed, retry, dropped,
                   robots_txt, robots_rules, crawl_resources, site, expansions, graph,
                   norm, timeout>>

\* cancel, line 469: with self.thread_lock
WorkerTimeoutLock(w) ==
    /\ wpc[w] = "t_lock"
    /\ ThreadLockFree
    /\ thread_lock' = w
    /\ wpc' = [wpc EXCEPT ![w] = "t_join"]
    /\ UNCHANGED <<url_queue, visited, visited_lock, paused, cancelled, threads,
                   results_queue, batch, db, dbTable, wtask, bpc, ui, scan, cancelRet,
                   getRet, emitted, crawlCalls, base_url, writeFailed, linksLeft, now,
                   domain_last_request, rpc, rcur, rdom, rwake, requests, linkPages,
                   arrivals, whoisCalls, removeTries, locksLeft, failed, retry, dropped,
                   robots_txt, robots_rules, crawl_resources, site, expansions, graph,
                   norm, timeout>>

\* cancel, lines 470-472: Thread.join raises RuntimeError when the thread to
\* join is the calling thread, which is alive
SelfJoinRaises(w) == w \in threads /\ is_alive(w)

\* cancel, lines 470-501, and lines 364, 371: the joins of the other threads
\* return after at most their timeout; the join of the calling thread raises,
\* the with statement releases thread_lock and the exception, raised outside
\* the try of line 373, ends the thread; a caller that is not in self.threads
\* goes on, reads the table (the list is dropped by _check_timeout) and
\* leaves the loop by the break
WorkerTimeoutJoin(w) ==
    /\ wpc[w] = "t_join"
    /\ thread_lock' = NoThread
    /\ wpc' = [wpc EXCEPT ![w] = IF SelfJoinRaises(w) THEN "dead" ELSE "exit"]
    /\ UNCHANGED <<url_queue, visited, visited_lock, paused, cancelled, threads,
                   results_queue, batch, db, dbTable, wtask, bpc, ui, scan, cancelRet,
                   getRet, emitted, crawlCalls, base_url, writeFailed, linksLeft, now,
                   domain_last_request, rpc, rcur, rdom, rwake, requests, linkPages,
                   arrivals, whoisCalls, removeTries, locksLeft, failed, retry, dropped,
                   robots_txt, robots_rules, crawl_resources, site, expansions, graph,
                   norm, timeout>>

WorkerTimeout(w) ==
    \/ WorkerTimeoutSet(w)
    \/ WorkerTimeoutClear(w)
    \/ WorkerTimeoutLock(w)
    \/ WorkerTimeoutJoin(w)

\* Spider.pause, line 439, called from the UI thread while another thread may
\* set the cancellation flag
PauseTest ==
    /\ ui = "idle"
    /\ ~paused
    /\ ~cancelled
    /\ ui' = "pause_set"
    /\ UNCHANGED <<url_queue, visited, visited_lock, paused, cancelled, threads,
                   thread_lock, results_queue, batch, db, dbTable, wpc, wtask, bpc, scan,
                   cancelRet, getRet, emitted, crawlCalls, base_url, writeFailed,
                   linksLeft, now, domain_last_request, rpc, rcur, rdom, rwake, requests,
                   linkPages, arrivals, whoisCalls, removeTries, locksLeft, failed, retry,
                   dropped, robots_txt, robots_rules, crawl_resources, site, expansions,
                   graph, norm, timeout>>

\* Spider.pause, line 440
PauseSet ==
    /\ ui = "pause_set"
    /\ paused' = TRUE
    /\ ui' = "idle"
    /\ UNCHANGED <<url_queue, visited, visited_lock, cancelled, threads, thread_lock,
                   results_queue, batch, db, dbTable, wpc, wtask, bpc, scan, cancelRet,
                   getRet, emitted, crawlCalls, base_url, writeFailed, linksLeft, now,
                   domain_last_request, rpc, rcur, rdom, rwake, requests, linkPages,
                   arrivals, whoisCalls, removeTries, locksLeft, failed, retry, dropped,
                   robots_txt, robots_rules, crawl_resources, site, expansions, graph,
                   norm, timeout>>

----------------------------------------------------------------------------
(* Spider._normalize_url on its own *)

\* the characters of a path with its fragment
PathChars == {"/", "a", "A", "#"}

\* the URLs of the base host whose path and fragment have at most MaxPathLen
\* characters
LinkUrls ==
    {<<"h">> \o p : p \in UNION {[1..n -> PathChars] : n \in 0..MaxPathLen}}

NormOff == [n |-> 0, url |-> <<>>, once |-> <<>>, twice |-> <<>>]

NormIdle == norm = NormOff

\* line 208: normalized_url = self._normalize_url(full_url)
NormalizeLink ==
    /\ norm.n = 0
    /\ \E u \in LinkUrls :
          norm' = [n |-> 1, url |-> u, once |-> _normalize_url(u), twice |-> <<>>]
    /\ UNCHANGED <<url_queue, visited, visited_lock, paused, cancelled, threads,
                   thread_lock, results_queue, batch, db, dbTable, wpc, wtask, bpc, ui,
                   scan, cancelRet, getRet, emitted, crawlCalls, base_url, writeFailed,
                   linksLeft, now, domain_last_request, rpc, rcur, rdom, rwake, requests,
                   linkPages, arrivals, whoisCalls, removeTries, locksLeft, failed, retry,
                   dropped, robots_txt, robots_rules, crawl_resources, site, expansions,
                   graph, timeout>>

\* _normalize_url called on the URL it has returned
NormalizeAgain ==
    /\ norm.n = 1
    /\ norm' = [norm EXCEPT !.n = 2, !.twice = _normalize_url(norm.once)]
    /\ UNCHANGED <<url_queue, visited, visited_lock, paused, cancelled, threads,
                   thread_lock, results_queue, batch, db, dbTable, wpc, wtask, bpc, ui,
                   scan, cancelRet, getRet, emitted, crawlCalls, base_url, writeFailed,
                   linksLeft, now, domain_last_request, rpc, rcur, rdom, rwake, requests,
                   linkPages, arrivals, whoisCalls, removeTries, locksLeft, failed, retry,
                   dropped, robots_txt, robots_rules, crawl_resources, site, expansions,
                   graph, timeout>>

----------------------------------------------------------------------------
(* The crawl: state after Spider.__init__, and the steps of all threads *)


\* a site of absolute links without robots.txt, no resource category enabled
PlainWeb ==
    robots_txt = NoRobots /\ crawl_resources = {} /\ site = Pages /\ graph = NoGraph

InitCrawler ==
    /\ base_url \in SeedUrls
    /\ url_queue = <<<<0, base_url, Root>>>>
    /\ arrivals = url_queue
    /\ visited = {}
    /\ visited_lock = NoThread
    /\ paused = FALSE
    /\ cancelled = FALSE
    /\ threads = {}
    /\ thread_lock = NoThread
    /\ results_queue = <<>>
    /\ batch = <<>>
    /\ db = {}
    /\ dbTable = TRUE
    /\ wpc = [w \in ThreadIds |-> "new"]
    /\ wtask = [w \in ThreadIds |-> NoTask]
    /\ bpc = "loop"
    /\ ui = "idle"
    /\ scan = "init"
    /\ cancelRet = NoList
    /\ getRet = NoList
    /\ emitted = EmptyBag
    /\ crawlCalls = EmptyBag
    /\ writeFailed = FALSE
    /\ dropped = {}
    /\ linkPages = {}
    /\ expansions = {}
    /\ robots_rules = _load_robots_txt(robots_txt)
    /\ whoisCalls = EmptyBag
    /\ removeTries = 0
    /\ failed = {}
    /\ RateIdle
    /\ RetryIdle
    /\ NormIdle

\* the whole program, on a site of SinkLinks links
Init == PlainWeb /\ InitCrawler /\ linksLeft = SinkLinks /\ locksLeft = 0 /\ timeout = NoTimeout

Next ==
    \/ \E w \in Workers : Worker(w)
    \/ BatchProcessor
    \/ UiThread
    \/ ScanThread

Spec == Init /\ [][Next]_vars

\* the crawl proper, on a site of MaxLinks links: the batch processor, which
\* no other thread waits for or reads from, is left out
InitCrawl == PlainWeb /\ InitCrawler /\ linksLeft = MaxLinks /\ locksLeft = 0 /\ timeout = NoTimeout

NextCrawl ==
    \/ \E w \in Workers : Worker(w)
    \/ UiThread
    \/ ScanThread

CrawlSpec == InitCrawl /\ [][NextCrawl]_vars

\* the crawl on a site of FairLinks links, every worker thread being
\* scheduled again and again
InitCrawlFair == PlainWeb /\ InitCrawler /\ linksLeft = FairLinks /\ locksLeft = 0 /\ timeout = NoTimeout

CrawlFairSpec ==
    /\ InitCrawlFair
    /\ [][NextCrawl]_vars
    /\ \A w \in Workers : WF_vars(Worker(w))

\* the whole program where the thread inside Spider.cancel() keeps running,
\* a thread that holds thread_lock goes on to release it, and a thread
\* waiting for thread_lock gets it when it is free again and again (the
\* liveness poll sleeps one second between two acquisitions); nothing is
\* assumed about the workers and the batch processor
InitCancel == PlainWeb /\ InitCrawler /\ linksLeft = CancelLinks /\ locksLeft = 0 /\ timeout = NoTimeout

CancelFairSpec ==
    /\ InitCancel
    /\ [][Next]_vars
    /\ WF_vars(CancelClear)
    /\ SF_vars(CancelLock)
    /\ WF_vars(CancelJoin)
    /\ WF_vars(CancelRead)
    /\ WF_vars(CrawlStart)
    /\ WF_vars(PollCount)

\* the rate limiter alone: workers that call _respect_rate_limit and issue
\* their request, again and again, while the clock runs
InitRate == PlainWeb /\ InitCrawler /\ linksLeft = 0 /\ locksLeft = 0 /\ timeout = NoTimeout

NextRate ==
    \/ \E w \in Workers : RateEnter(w) \/ RateCheck(w) \/ RateWake(w) \/ RateWrite(w)
    \/ Tick

RateSpec == InitRate /\ [][NextRate]_vars

\* a Spider that was constructed and on which pause(), resume() and cancel()
\* are called while crawl() never is
InitUnstarted == PlainWeb /\ InitCrawler /\ linksLeft = UnstartedLinks /\ locksLeft = 0 /\ timeout = NoTimeout

NextUnstarted ==
    \/ \E w \in Workers : Worker(w)
    \/ Pause
    \/ ResumeUnstarted
    \/ ResumeLock
    \/ ResumeStart
    \/ CancelSet
    \/ CancelClear
    \/ CancelLock
    \/ CancelJoin
    \/ CancelRead
    \/ CancelCleanup

UnstartedSpec == InitUnstarted /\ [][NextUnstarted]_vars

\* the whole program on a system that may refuse to remove the database file
InitCleanup == PlainWeb /\ InitCrawler /\ linksLeft = CleanupLinks /\ locksLeft = MaxLocked /\ timeout = NoTimeout

CleanupSpec == InitCleanup /\ [][Next]_vars

\* the retry loop alone: workers that fetch one task after the other from a
\* site that answers or fails at will
NextRetry ==
    \E w \in Workers : RetryEnter(w) \/ RetryResponse(w) \/ RetryError(w) \/ RetryLeave(w)

RetrySpec == InitRate /\ [][NextRetry]_vars

\* a crawl of a Spider constructed with a global timeout, on a site of
\* TimeoutLinks links, while the clock runs and the user may press pause
InitTimeout ==
    PlainWeb /\ InitCrawler /\ linksLeft = TimeoutLinks /\ locksLeft = 0 /\ timeout = GlobalTimeout

NextTimeout ==
    \/ \E w \in Workers : Worker(w) \/ WorkerTimeout(w)
    \/ PauseTest
    \/ PauseSet
    \/ ScanThread
    \/ Tick

TimeoutSpec == InitTimeout /\ [][NextTimeout]_vars

\* the program when the user may press resume before crawl() is called, on a
\* site of EarlyLinks links
InitEarly == PlainWeb /\ InitCrawler /\ linksLeft = EarlyLinks /\ locksLeft = 0 /\ timeout = NoTimeout

NextEarly ==
    \/ \E w \in ThreadIds : Worker(w)
    \/ ResumeUnstarted
    \/ UiThread
    \/ ScanThread

EarlyResumeSpec == InitEarly /\ [][NextEarly]_vars

\* the crawl of a site that has links of every kind and may have a robots.txt,
\* by a Spider with some resource setting, which the user may pause and resume
InitFilter ==
    /\ robots_txt \in RobotsResponses
    /\ crawl_resources \in ResourceSettings
    /\ site = FilterPages
    /\ graph = NoGraph
    /\ InitCrawler
    /\ linksLeft = FilterLinks /\ locksLeft = 0 /\ timeout = NoTimeout

NextFilter ==
    \/ \E w \in Workers : Worker(w)
    \/ Pause
    \/ ResumeClear
    \/ ResumeLock
    \/ ResumeStart
    \/ ScanThread

FilterSpec == InitFilter /\ [][NextFilter]_vars

\* _normalize_url alone: it is given the URL of some link of the base host,
\* and then the URL it has returned
NextNormalize == NormalizeLink \/ NormalizeAgain

NormalizeSpec == InitRate /\ [][NextNormalize]_vars

\* the crawl of the site LinkGraph, which answers every request, by a Spider
\* that the user may pause and resume
InitGraph ==
    /\ robots_txt = NoRobots
    /\ crawl_resources = {}
    /\ graph = LinkGraph
    /\ site = {graph[u] : u \in DOMAIN graph}
    /\ InitCrawler
    /\ linksLeft = GraphLinks /\ locksLeft = 0 /\ timeout = NoTimeout

GraphSpec == InitGraph /\ [][NextFilter]_vars

----------------------------------------------------------------------------
(* Properties of the crawl *)

EmittedSet == BagToSet(emitted)

ClaimedUrls == BagToSet(crawlCalls)

\* number of results put on the results queue for url u
Emits(u) ==
    LET rs == {r \in EmittedSet : r.url = u}
        RECURSIVE Sum(_)
        Sum(S) == IF S = {} THEN 0
                  ELSE LET r == CHOOSE x \in S : TRUE
                       IN CopiesIn(r, emitted) + Sum(S \ {r})
    IN Sum(rs)

\* some worker holds the task it claimed for url u
InProgress(u) ==
    \E w \in Workers : wpc[w] \in {"pause_chk", "pause_again", "fetch"} /\ wtask[w][2] = u

C2_NoTwoResultsSameNormalizedUrl ==
    /\ \A r \in EmittedSet : CopiesIn(r, emitted) = 1
    /\ \A r1, r2 \in EmittedSet :
          _normalize_url(r1.url) = _normalize_url(r2.url) => r1 = r2

\* a worker holds a task it has claimed and has not yet finished with
Holding(w) == wpc[w] \in {"pause_chk", "pause_again", "fetch"}

\* C3 (as claimed): every task a worker has claimed, once the worker is done
\* with it, has put exactly one result for its URL on the results queue
C3_ClaimedTaskYieldsOneResult ==
    \A u \in ClaimedUrls : Emits(u) <= 1 /\ (InProgress(u) \/ Emits(u) = 1)

\* C3 (amended): a claimed task puts at most one result; when the worker is
\* done with it, it has put exactly one unless the crawl is cancelled; and
\* the worker does get done with it if pause is eventually lifted for good
C3_ClaimedTaskYieldsOneResultUnlessCancelled ==
    /\ [](\A u \in ClaimedUrls :
             /\ Emits(u) <= 1
             /\ InProgress(u) \/ Emits(u) = 1 \/ (cancelled /\ Emits(u) = 0))
    /\ \A w \in Workers : (<>[](~paused)) => [](Holding(w) => <>(~Holding(w)))

\* one claimed task has put its result, another was given up after cancel()
C3_Witness ==
    \E u1, u2 \in ClaimedUrls :
        /\ Emits(u1) = 1
        /\ ~InProgress(u2) /\ Emits(u2) = 0 /\ cancelled

\* C7: a worker that sits in the pause loop when the cancellation flag is set
\* leaves _crawl_url without starting a fetch
C7_PausedWorkerExitsWithoutFetch ==
    [][\A w \in Workers :
          (wpc[w] = "pause_again" /\ cancelled) => wpc'[w] # "fetch"]_vars

\* C10: the seed task has depth 0 and referrer "root"; every other task and
\* every other result has, as referrer, a URL whose result was emitted at the
\* depth just above its own
ParentAbove(depth, referrer) ==
    /\ depth >= 1
    /\ \E p \in EmittedSet : p.url = referrer
    /\ \A p \in EmittedSet : p.url = referrer => p.depth = depth - 1

HeldTasks == {wtask[w] : w \in {x \in Workers : wtask[x] # NoTask}}

QueuedTasks == {url_queue[i] : i \in 1..Len(url_queue)}

C10_DepthIsParentDepthPlusOne ==
    /\ \A t \in QueuedTasks \cup HeldTasks :
          \/ t = <<0, base_url, Root>>
          \/ ParentAbove(t[1], t[3])
    /\ \A r \in EmittedSet :
          \/ r.depth = 0 /\ r.url = base_url /\ r.referrer = Root
          \/ ParentAbove(r.depth, r.referrer)

\* a result of depth 2 has been emitted, its parent's at depth 1
C10_Witness ==
    \E r, p \in EmittedSet : r.depth = 2 /\ p.url = r.referrer /\ p.depth = 1

----------------------------------------------------------------------------
(* Properties of link expansion *)

\* the result of the fetch recorded as p has been put on the results queue
Recorded(p) ==
    \E r \in EmittedSet : r.url = p.url /\ r.depth = p.depth /\ r.status = p.status

\* C11: a task at depth max_depth or deeper is fetched and recorded but its
\* links, whatever the page holds, are not put on the frontier; no task of the
\* frontier (queued or held by a worker) and no result is deeper than max_depth
C11_NoExpansionAtMaxDepth ==
    /\ \A p \in linkPages : Recorded(p) /\ (p.depth >= max_depth => ~p.followed)
    /\ \A t \in QueuedTasks \cup HeldTasks : t[1] <= max_depth
    /\ \A r \in EmittedSet : r.depth <= max_depth

\* a page fetched at depth max_depth held links to unvisited URLs, its result
\* has been recorded, and the frontier is empty
C11_Witness ==
    /\ \E p \in linkPages : p.depth = max_depth /\ p.status = 200 /\ p.html /\ Recorded(p)
    /\ url_queue = <<>>

\* the fetches whose links were put on the frontier with url as referrer
FollowedPages(url) == {p \in linkPages : p.url = url /\ p.followed}

\* url was fetched as an internal URL, answered 200 with an HTML content type,
\* and only so, when its links were followed
InternalHtmlPage(url) ==
    /\ FollowedPages(url) # {}
    /\ \A p \in FollowedPages(url) :
          get_domain(p.url) = get_domain(base_url) /\ p.status = 200 /\ p.html

\* C12: the links of a page whose URL has another domain than the base URL
\* are never put on the frontier, whatever the status and the content type of
\* its response; the referrer of every task and of every result other than the
\* seed's is an internal URL that answered 200 with an HTML content type
C12_ExternalNeverExpanded ==
    /\ \A p \in linkPages : get_domain(p.url) # get_domain(base_url) => ~p.followed
    /\ \A t \in (QueuedTasks \cup HeldTasks) \ {<<0, base_url, Root>>} :
          InternalHtmlPage(t[3])
    /\ \A r \in EmittedSet : r.referrer # Root => InternalHtmlPage(r.referrer)

\* an external URL, found on an internal page, answered 200 with an HTML page
\* that holds unvisited links
C12_Witness ==
    \E p \in linkPages, r \in EmittedSet :
        /\ get_domain(p.url) # get_domain(base_url)
        /\ p.status = 200 /\ p.html
        /\ r.url = p.url /\ r.type = "external" /\ InternalHtmlPage(r.referrer)

----------------------------------------------------------------------------
(* Properties of the frontier's order *)

\* the task put earliest among the tasks of minimal depth in the frontier
RECURSIVE EarliestShallowest(_, _)
EarliestShallowest(s, d) ==
    IF s = <<>> THEN NoTask
    ELSE IF Head(s)[1] = d THEN Head(s)
    ELSE EarliestShallowest(Tail(s), d)

MinDepth == CHOOSE d \in {t[1] : t \in QueuedTasks} : \A t \in QueuedTasks : d <= t[1]

\* C13: every get from the frontier returns a task of minimal depth among
\* the tasks in it, and among these the one that was put first
C13_DequeueByDepthThenInsertionOrder ==
    [][\A w \in Workers :
          (wpc[w] = "get" /\ wpc'[w] = "vlock") =>
              /\ wtask'[w][1] = MinDepth
              /\ wtask'[w] = EarliestShallowest(arrivals, MinDepth)]_vars

----------------------------------------------------------------------------
(* Properties of pause and resume *)

InPauseLoop(w) == wpc[w] \in {"pause_chk", "pause_again"}

Exits(w) == wpc[w] # "exit" /\ wpc'[w] = "exit"

\* C14: a worker exits only from its loop test with the cancellation flag
\* set, or from the second idle-out test, which it reaches only from a first
\* test that saw the frontier empty and the pause flag clear, with the frontier
\* empty and the pause flag clear again; a worker in the pause loop stays in it
\* while the crawl is paused and not cancelled
C14_PauseNeverEndsWorker ==
    [][\A w \in Workers :
          /\ Exits(w) =>
                \/ wpc[w] = "loop" /\ cancelled
                \/ wpc[w] = "sleep" /\ url_queue = <<>> /\ ~paused
          /\ (wpc[w] # "sleep" /\ wpc'[w] = "sleep") =>
                (wpc[w] = "get" /\ url_queue = <<>> /\ ~paused)
          /\ (InPauseLoop(w) /\ paused /\ ~cancelled) => InPauseLoop(w)']_vars

\* the crawl is paused while one worker sits between its two idle-out tests,
\* the frontier empty, and the other in the pause loop
C14_Witness ==
    /\ paused /\ ~cancelled
    /\ url_queue = <<>>
    /\ \E w1, w2 \in Workers : wpc[w1] = "sleep" /\ wpc[w2] = "pause_again"

\* every live worker is blocked in the pause loop
AllBlockedByPause ==
    /\ \E w \in Workers : is_alive(w)
    /\ \A w \in Workers : is_alive(w) => InPauseLoop(w)

\* C15: a worker blocked because of pause has, in this iteration, taken no
\* task from the frontier and put no URL into the visited set; and while the
\* crawl stays paused with every worker blocked, the frontier and the visited
\* set do not change
C15_PauseCheckedBeforeDequeue ==
    [][/\ \A w \in Workers :
             (InPauseLoop(w)' /\ paused') =>
                 (wtask'[w] = NoTask \/ wtask'[w][2] \notin visited')
       /\ (paused /\ paused' /\ AllBlockedByPause) =>
             (url_queue' = url_queue /\ visited' = visited)]_vars

\* the workers a step starts
Launched == {w \in Workers : ~is_alive(w) /\ is_alive(w)'}

\* C16: resume() clears the pause flag; it starts workers only on a crawl that
\* crawl() has started, whose workers have all exited and whose frontier is
\* not empty, and then min(max_threads, frontier size) of them; in every other
\* situation it starts none
C16_ResumeLaunchesOnlyAfterIdleOut ==
    [][/\ (ui = "idle" /\ ui' = "resume_lock") => ~paused'
       /\ (ui = "resume_start" /\ ui' = "idle") =>
             IF /\ scan \notin {"init", "start_lock", "start"}
                /\ active_threads = 0
                /\ url_queue # <<>>
                THEN Cardinality(Launched) = Min(max_threads, Len(url_queue))
                ELSE Launched = {} /\ threads' = threads]_vars

----------------------------------------------------------------------------
(* Properties of the finalization of a run *)

\* C17: during one run WhoisChecker.check_domain is called at most once for
\* each external domain, the calls of run_scan_thread and of cancel_scan
\* taken together
C17_DomainResolvedAtMostOnce ==
    \A d \in BagToSet(whoisCalls) : CopiesIn(d, whoisCalls) <= 1

\* C18: get_results() is called to finalize a run as completed only on a run
\* on which cancel() was not invoked, and the results of a run are reported by
\* one of the two paths (run_scan_thread, cancel_scan) only
C18_FinalizedOnce ==
    [][/\ (scan = "get_results" /\ scan' = "cleanup") => ~cancelled
       /\ ~(getRet' # NoList /\ cancelRet' # NoList)]_vars

\* a step that is one whole call of Spider._cleanup
CleanupStep ==
    \/ ui = "cancel_cleanup" /\ ui' = "idle"
    \/ scan = "cleanup" /\ scan' = "done"

\* the fields of the Spider other than the store
SpiderFields ==
    <<url_queue, visited, visited_lock, paused, cancelled, threads, thread_lock,
      results_queue, batch, wpc, wtask, bpc>>

\* C19: a _cleanup call on a store that is already removed changes nothing;
\* no _cleanup call tries to remove the file more than max_retries times, and
\* it returns to its caller also when every attempt failed; a get_results()
\* call after the store was removed returns the empty list
C19_CleanupIdempotent ==
    [][/\ CleanupStep =>
             /\ SpiderFields' = SpiderFields
             /\ ~dbTable => (db' = db /\ dbTable' = dbTable)
       /\ removeTries' <= max_retries
       /\ (scan = "get_results" /\ scan' # scan /\ ~dbTable) =>
             (scan' = "cleanup" /\ getRet' = {})]_vars

\* both finalization paths have called _cleanup, one call found the file locked
\* at each of its attempts, and get_results() returned the empty list although
\* cancel() had read rows
C19_Witness ==
    /\ ui = "idle" /\ scan = "done"
    /\ cancelRet # NoList /\ cancelRet # {}
    /\ getRet = {}
    /\ ~dbTable
    /\ removeTries = max_retries

----------------------------------------------------------------------------
(* Properties of failed fetches *)

\* url is the referrer of some task or result
HasChild(url) ==
    \/ \E t \in QueuedTasks \cup HeldTasks : t[3] = url
    \/ \E r \in EmittedSet : r.referrer = url

\* C20: a task whose three fetch attempts all raised a transport error has
\* put exactly one result, with status "Request Failed", and no child task;
\* the worker leaves _crawl_url normally and goes on with its loop, the other
\* workers and the frontier being left as they are
C20_FailedFetchYieldsOneResult ==
    /\ [](\A u \in failed :
             /\ Emits(u) = 1
             /\ \A r \in EmittedSet : r.url = u => r.status = RequestFailed
             /\ ~HasChild(u))
    /\ [][failed' # failed =>
             /\ url_queue' = url_queue
             /\ \A w \in Workers : wpc'[w] # wpc[w] => wpc'[w] = "loop"]_vars

\* a task other than the seed has failed and a worker is fetching another task
C20_Witness ==
    \E u \in failed, w \in Workers :
        /\ u # base_url
        /\ Emits(u) = 1
        /\ wpc[w] = "fetch" /\ wtask[w][2] # u

----------------------------------------------------------------------------
(* Properties of cancellation and of the result sink *)

\* C6: a call of Spider.cancel() returns: after line 465 has set the flag, the
\* call reaches its return statement
C6_CancelReturns == [](ui = "cancel_clear" => <>(ui = "cancel_cleanup"))

\* cancel() has returned while a worker is still alive and the batch
\* processor has not finished
C6_Witness ==
    /\ ui = "cancel_cleanup"
    /\ \E w \in threads : is_alive(w)
    /\ bpc # "done"

AllWorkersExited == \A w \in Workers : ~is_alive(w)

\* C4: once the workers and the batch processor have stopped (before cleanup,
\* and no write having failed), every result a worker has put on the results
\* queue is in the store, and none is left in the queue or in the batch
C4_NoResultLost ==
    (AllWorkersExited /\ bpc = "done" /\ dbTable /\ ~writeFailed)
        => /\ results_queue = <<>>
           /\ batch = <<>>
           /\ \A r \in EmittedSet : r \in db

\* C5: when get_results() returns in a run that was not cancelled, all workers
\* having exited (and no write having failed), the list it returns holds
\* every result the workers have emitted
C5_GetResultsReturnsEveryResult ==
    [][(/\ scan = "get_results" /\ scan' = "cleanup"
        /\ ~cancelled /\ ~writeFailed /\ AllWorkersExited)
          => \A r \in EmittedSet : r \in getRet']_vars

\* the steps of one call of Spider.cancel()
InCancel == ui' # ui /\ ui' \in {"cancel_clear", "cancel_lock", "cancel_join",
                                   "cancel_read", "cancel_cleanup"}

\* C8: no step of cancel() changes the store; a get_results() that returns
\* after cancel() has returned, cleanup not yet called, returns every result
\* cancel() returned; and both return only results emitted in this run
C8_CancelKeepsStore ==
    [][/\ InCancel => (db' = db /\ dbTable' = dbTable)
       /\ (scan = "get_results" /\ scan' = "cleanup" /\ cancelRet # NoList /\ dbTable)
             => cancelRet \subseteq getRet'
       /\ cancelRet' # NoList => cancelRet' \subseteq BagToSet(emitted')
       /\ getRet' # NoList => getRet' \subseteq BagToSet(emitted')]_vars

\* cancel() returned a non-empty list, and a later get_results(), before
\* cleanup, returned that list and one result more
C8_Witness ==
    /\ ui = "cancel_cleanup"
    /\ cancelRet # NoList /\ cancelRet # {}
    /\ getRet # NoList
    /\ cancelRet \subseteq getRet /\ cancelRet # getRet

----------------------------------------------------------------------------
(* Properties of the rate limiter *)

\* C9: any two requests issued to the same domain start at least delay apart
C9_RequestsSpacedByDelay ==
    \A q1, q2 \in requests :
        (q1 # q2 /\ q1[2] = q2[2]) =>
            (q1[3] - q2[3] >= delay \/ q2[3] - q1[3] >= delay)

----------------------------------------------------------------------------
(* Properties of the retry loop *)

\* the attempts of the call that raised
Errors(r) == IF r.answered THEN r.tries - 1 ELSE r.tries

\* C21: a call makes at most max_retries attempts; once an attempt has
\* completed with a response the loop is left, no further attempt is made and
\* the status is the response's code; the k-th failed attempt is followed by a
\* sleep of k * retry_delay for k = 1, 2, and the third by none
C21_AtMostThreeAttemptsLinearBackoff ==
    \A w \in Workers :
        LET r == retry[w]
        IN /\ r.tries <= max_retries
           /\ r.answered => (r.pc = "done" /\ r.status \in Statuses)
           /\ ~r.answered => r.status = RequestFailed
           /\ r.sleeps = [k \in 1..Min(Errors(r), max_retries - 1) |-> k * retry_delay]

\* one call was answered at its third attempt, after sleeps of 1 and 2, and
\* another has failed three times
C21_Witness ==
    \E w1, w2 \in Workers :
        /\ retry[w1].answered /\ retry[w1].tries = 3 /\ retry[w1].sleeps = <<1, 2>>
        /\ ~retry[w2].answered /\ retry[w2].tries = 3 /\ retry[w2].pc = "done"

----------------------------------------------------------------------------
(* Claims about the global timeout *)

InTimeoutCancel(w) == wpc[w] \in {"t_cancel", "t_clear", "t_lock", "t_join"}

\* C22: a worker that finds the global timeout elapsed runs cancel() to its
\* end and leaves its loop by the break: no worker that entered cancel() is
\* ended by an exception
C22_TimeoutCancelCompletes ==
    \A w \in Workers : wpc[w] # "dead"

\* C30: when neither pause() nor cancel() is running, the pause flag is clear
\* whenever the cancellation flag is set
C30_NeverCancelledAndPausedAtRest ==
    (ui = "idle" /\ \A w \in Workers : ~InTimeoutCancel(w)) => ~(cancelled /\ paused)

----------------------------------------------------------------------------
(* Claims about the lifecycle of a Spider *)

\* a step of the UI thread that starts from rest and does not enter cancel():
\* neither the scan thread nor a live worker moves
UiCallStep ==
    /\ ui = "idle"
    /\ ui' # "cancel_clear"
    /\ scan' = scan
    /\ \A w \in Workers : is_alive(w) => wpc'[w] = wpc[w]

\* C29: no step clears the cancellation flag, and a pause() or resume() called
\* while it is set changes neither the pause flag, nor the workers, nor the
\* frontier
C29_CancelledIsTerminal ==
    [][/\ cancelled => cancelled'
       /\ (cancelled /\ UiCallStep) => UNCHANGED <<paused, threads, wpc, url_queue, ui>>]_vars

\* the crawl is cancelled and at rest with tasks left and no live worker: a
\* pause() would set the flag and a resume() would launch workers, did they
\* not test the cancellation flag
C29_Witness ==
    /\ cancelled /\ ui = "idle" /\ ~paused
    /\ url_queue # <<>>
    /\ threads # {} /\ active_threads = 0
    /\ scan \notin {"init", "start_lock", "start"}

\* C28: at most max_threads worker threads are alive
C28_AtMostMaxThreadsAlive ==
    Cardinality({w \in ThreadIds : is_alive(w)}) <= max_threads

----------------------------------------------------------------------------
(* Claims about failing batch writes *)

\* the results the batch processor still holds or has yet to take
Pending == Elements(results_queue) \cup Elements(batch)

Stored(r) == \E x \in db : x.url = r.url

\* C25: a failed write drops its batch and nothing else: as long as the
\* database file is there, every emitted result is pending, or in a batch
\* whose write failed, or stored (under its URL); the step of a failed write
\* leaves the store as it was, empties the batch and lets the batch processor
\* go on; and get_results() returns the whole store
C25_FailedWriteDropsOnlyItsBatch ==
    [][/\ dbTable' => \A r \in BagToSet(emitted') :
                          r \in Pending' \/ r \in dropped' \/ Stored(r)'
       /\ dropped' # dropped
             => /\ db' = db
                /\ batch' = <<>>
                /\ bpc' = (IF bpc = "final" THEN "done" ELSE "loop")
       /\ (scan = "get_results" /\ scan' = "cleanup" /\ dbTable) => getRet' = db]_vars

\* the write of the batch holding the seed's result failed, the batch
\* written after it is stored and get_results() has returned it
C25_Witness ==
    /\ \E r \in dropped : r.url = _normalize_url(base_url) /\ ~Stored(r)
    /\ getRet # NoList
    /\ \E r \in getRet : r.url # _normalize_url(base_url) /\ r.depth = 1

\* C32: the batch processor is past its loop only when the cancellation flag
\* is set; each turn of its loop takes the first result of the queue, if
\* there is one, and writes the batch when that result fills it, or writes
\* the batch when the queue is empty; the batch never holds more than
\* batch_size results
C32_ConsumerRunsUntilCancelled ==
    [][/\ bpc' \in {"final", "done"} => cancelled'
       /\ Len(batch') <= batch_size
       /\ (bpc = "get" /\ bpc' = "loop")
             => IF results_queue # <<>>
                   THEN /\ results_queue' = Tail(results_queue)
                        /\ batch' = IF Len(batch) + 1 >= batch_size
                                       THEN <<>>
                                       ELSE Append(batch, Head(results_queue))
                   ELSE batch' = <<>>]_vars

\* the batch processor has ended after cancel(), the queue is drained and
\* every result the workers have put is stored
C32_Witness ==
    /\ bpc = "done" /\ cancelled
    /\ batch = <<>> /\ results_queue = <<>>
    /\ db # {} /\ dropped = {}
    /\ \A r \in EmittedSet : r \in db

----------------------------------------------------------------------------
(* Claims about the end of a crawl *)

\* crawl() has started its pool
Started == scan \notin {"init", "start_lock", "start"}

PoolExited == threads # {} /\ \A w \in threads : ~is_alive(w)

\* C26: in a crawl that crawl() has started and that was not cancelled, the
\* frontier is empty whenever every worker of the pool has exited
C26_IdleOutStrandsNoTask ==
    (Started /\ ~cancelled /\ PoolExited) => url_queue = <<>>

\* the pool has exited, uncancelled, after it has crawled a page, its links
\* and a link of these
C26_Witness ==
    /\ Started /\ ~cancelled /\ PoolExited
    /\ url_queue = <<>>
    /\ \E r \in EmittedSet : r.depth = 2

----------------------------------------------------------------------------
(* Claims about the links that are followed *)

\* the URLs of the tasks put by the expansion e
PutUrls(e) == {t[2] : t \in Elements(e.put)}

\* the links _extract_links returned for the expansion e
Discovered(e) == Elements(_extract_links(e.url, e.tags, e.seen))

\* the path of url starts with a recorded prefix
Disallowed(url) == \E rule \in robots_rules : StartsWith(Path(url), rule)

\* C23: the rules are those the constructor has loaded, none when the
\* response was not a 200; no task and no result other than the seed's has a
\* URL whose path starts with a recorded prefix; and without rules every
\* extracted link is put
C23_RobotsRulesObeyed ==
    /\ robots_rules = _load_robots_txt(robots_txt)
    /\ robots_txt.status # 200 => robots_rules = {}
    /\ \A t \in QueuedTasks \cup HeldTasks : t[1] > 0 => ~Disallowed(t[2])
    /\ \A r \in EmittedSet : r.depth > 0 => ~Disallowed(r.url)
    /\ \A e \in expansions : \A u \in PutUrls(e) : ~Disallowed(u)
    /\ robots_rules = {} => \A e \in expansions : PutUrls(e) = Discovered(e)

\* a page was expanded of which one link was put and another, extracted as
\* well, was not because a rule loaded from robots.txt disallows it
C23_Witness ==
    /\ robots_txt.status = 200 /\ robots_rules # {}
    /\ \E e \in expansions :
          /\ PutUrls(e) # {}
          /\ \E u \in Discovered(e) \ PutUrls(e) : Disallowed(u)

\* the category of the extension of a URL is not enabled
DisabledExtension(url) ==
    \/ url[Len(url)] = "g" /\ "images" \notin crawl_resources
    \/ url[Len(url)] = "s" /\ "scripts" \notin crawl_resources

\* the links of the expansion e that the claim lets through, resolved against
\* the page and normalised
ClaimedChildren(e) ==
    {_normalize_url(urljoin(e.url, t.href)) :
        t \in {x \in Elements(e.tags) :
                 /\ x.href # <<>>
                 /\ Head(urljoin(e.url, x.href)) \in {"h", "x"}
                 /\ Head(x.href) \notin {"j", "m", "t", "#"}
                 /\ "nofollow" \notin x.rel
                 /\ _normalize_url(urljoin(e.url, x.href)) \notin e.seen
                 /\ ~Disallowed(_normalize_url(urljoin(e.url, x.href)))
                 /\ ~DisabledExtension(_normalize_url(urljoin(e.url, x.href)))}}

----------------------------------------------------------------------------
(* Claims about URL normalisation *)

\* C31: normalising a normalised URL returns it unchanged
C31_NormalizeIdempotent ==
    norm.n = 2 => norm.twice = norm.once

----------------------------------------------------------------------------
(* Claims about the crawl of a fixed link graph *)

\* the URLs at link distance k or less from the seed, links being followed
\* from pages at distance less than max_depth
RECURSIVE Within(_)
Within(k) ==
    IF k = 0 THEN {base_url}
    ELSE Within(k - 1)
         \cup UNION {{_normalize_url(graph[v][i].href) : i \in 1..Len(graph[v])} :
                         v \in Within(k - 1) \cap DOMAIN graph}

\* C33: when the pool has exited, uncancelled, every result carries the link
\* distance of its URL from the seed as its depth
C33_DepthIsLinkDistance ==
    (Started /\ PoolExited /\ ~cancelled)
        => \A r \in EmittedSet :
              /\ r.url \in Within(r.depth)
              /\ r.depth > 0 => r.url \notin Within(r.depth - 1)
====
